---------------------------- MODULE Spec2Model ----------------------------
(***************************************************************************)
(* State-machine model of the ga4-ai-dashboard front end (page.tsx):       *)
(*   - the value comparator shared by the sortable tables                  *)
(*     (parseMaybeNumber, compareValues, parseAnswerNumber,                *)
(*      parseDurationToSeconds);                                           *)
(*   - the sort state of ReportPanel and AnswerTable (handleSort,          *)
(*     sortedRows);                                                        *)
(*   - the top-level question flow of HomePage (handleAsk,                 *)
(*     handleQuickPrompt) and the per-insight follow-up state of           *)
(*     AnswerRenderer (handleInsightFollowup).                             *)
(*                                                                         *)
(* Cell text is modelled by TLA+ strings, character by character.  A raw   *)
(* cell value is a record [t, n, s]: t = "null" (null or undefined),       *)
(* t = "num" (a finite JS number, n its integer value) or t = "str" (a     *)
(* string, s its text).  A parsed number is a record [nan, m, e] that      *)
(* stands for m / 10^e, so decimal fractions are exact.                    *)
(***************************************************************************)
EXTENDS Integers, Sequences, FiniteSets

(***************************************************************************)
(* Strings and numbers of the JavaScript runtime                           *)
(***************************************************************************)

Char(s, i) == SubSeq(s, i, i)

Digits == <<"0", "1", "2", "3", "4", "5", "6", "7", "8", "9">>

IsDigit(c) == \E d \in 1..Len(Digits) : Digits[d] = c

DigitVal(c) == (CHOOSE d \in 1..Len(Digits) : Digits[d] = c) - 1

\* White space and line terminators (the class \s, and what trim() removes).
IsSpace(c) == c \in {" ", "\t", "\r", "\n"}

Sign(x) == IF x < 0 THEN -1 ELSE IF x > 0 THEN 1 ELSE 0

RECURSIVE Pow10(_)
Pow10(k) == IF k = 0 THEN 1 ELSE 10 * Pow10(k - 1)

\* String.prototype.replace(/[chars]/g, ""): s without the characters of cs.
RECURSIVE RemoveChars(_, _)
RemoveChars(s, cs) ==
    IF s = "" THEN ""
    ELSE IF Char(s, 1) \in cs THEN RemoveChars(Tail(s), cs)
    ELSE Char(s, 1) \o RemoveChars(Tail(s), cs)

RECURSIVE TrimStart(_)
TrimStart(s) ==
    IF s # "" /\ IsSpace(Char(s, 1)) THEN TrimStart(Tail(s)) ELSE s

RECURSIVE TrimEnd(_)
TrimEnd(s) ==
    IF s # "" /\ IsSpace(Char(s, Len(s)))
    THEN TrimEnd(SubSeq(s, 1, Len(s) - 1))
    ELSE s

\* String.prototype.trim
Trim(s) == TrimEnd(TrimStart(s))

AllDigits(s) == \A i \in 1..Len(s) : IsDigit(Char(s, i))

\* The value of a run of decimal digits (0 for the empty run).
RECURSIVE DigitsValue(_)
DigitsValue(s) ==
    IF s = "" THEN 0
    ELSE 10 * DigitsValue(SubSeq(s, 1, Len(s) - 1)) + DigitVal(Char(s, Len(s)))

NaN == [nan |-> TRUE, m |-> 0, e |-> 0]

Number(m, e) == [nan |-> FALSE, m |-> m, e |-> e]

\* An unsigned StrDecimalLiteral: digits, at most one ".", at least one digit.
UnsignedDecimal(s) ==
    LET dots == {i \in 1..Len(s) : Char(s, i) = "."}
    IN  IF dots = {}
        THEN IF s # "" /\ AllDigits(s) THEN Number(DigitsValue(s), 0) ELSE NaN
        ELSE LET d    == CHOOSE i \in dots : \A j \in dots : i <= j
                 int  == SubSeq(s, 1, d - 1)
                 frac == SubSeq(s, d + 1, Len(s))
             IN  IF AllDigits(int) /\ AllDigits(frac) /\ Len(int) + Len(frac) > 0
                 THEN Number(DigitsValue(int) * Pow10(Len(frac)) + DigitsValue(frac),
                             Len(frac))
                 ELSE NaN

\* Number(string) of ECMAScript (StringToNumber) on text made of digits,
\* signs, ".", blanks and other characters that are no part of a numeric
\* literal: surrounding white space is dropped, the empty string is 0, an
\* optional sign precedes an unsigned decimal, anything else is NaN.
\* (Exponents, hexadecimal literals and "Infinity" are outside the inputs.)
JsNumber(s) ==
    LET t == Trim(s)
    IN  IF t = "" THEN Number(0, 0)
        ELSE IF Char(t, 1) = "-"
        THEN LET u == UnsignedDecimal(Tail(t))
             IN  IF u.nan THEN NaN ELSE Number(0 - u.m, u.e)
        ELSE IF Char(t, 1) = "+" THEN UnsignedDecimal(Tail(t))
        ELSE UnsignedDecimal(t)

\* The sign of a - b for two parsed numbers.
NumCompare(a, b) == Sign(a.m * Pow10(b.e) - b.m * Pow10(a.e))

\* String(n) for an integer n.
RECURSIVE NatToString(_)
NatToString(n) ==
    IF n < 10 THEN Digits[n + 1]
    ELSE NatToString(n \div 10) \o Digits[(n % 10) + 1]

IntToString(n) == IF n < 0 THEN "-" \o NatToString(0 - n) ELSE NatToString(n)

(***************************************************************************)
(* String.prototype.localeCompare(other, undefined,                        *)
(*                                {numeric: true, sensitivity: "base"})    *)
(* The collation of the runtime (CLDR root order, primary strength):       *)
(* white space < punctuation < symbols < currency < digits < letters,      *)
(* letters compared without case, and a run of digits compared by its      *)
(* numeric value.  A proper prefix sorts first.                            *)
(***************************************************************************)

CollationOrder == " _-,;:!?.'()[]{}@*/&#%^+<=>|~$"

LowerLetters == "abcdefghijklmnopqrstuvwxyz"

UpperLetters == "ABCDEFGHIJKLMNOPQRSTUVWXYZ"

Occurs(str, c) == \E i \in 1..Len(str) : Char(str, i) = c

IndexOf(str, c) == CHOOSE i \in 1..Len(str) : Char(str, i) = c

\* Primary collation weight of one character.
CollationRank(c) ==
    IF Occurs(CollationOrder, c) THEN IndexOf(CollationOrder, c)
    ELSE IF IsDigit(c) THEN Len(CollationOrder) + 1
    ELSE IF Occurs(LowerLetters, c)
    THEN Len(CollationOrder) + 1 + IndexOf(LowerLetters, c)
    ELSE IF Occurs(UpperLetters, c)
    THEN Len(CollationOrder) + 1 + IndexOf(UpperLetters, c)
    ELSE Len(CollationOrder) + Len(LowerLetters) + 2

\* Length of the run of digits that starts s.
RECURSIVE DigitRunLen(_)
DigitRunLen(s) ==
    IF s # "" /\ IsDigit(Char(s, 1)) THEN 1 + DigitRunLen(Tail(s)) ELSE 0

RECURSIVE localeCompare(_, _)
localeCompare(a, b) ==
    IF a = "" /\ b = "" THEN 0
    ELSE IF a = "" THEN -1
    ELSE IF b = "" THEN 1
    ELSE IF IsDigit(Char(a, 1)) /\ IsDigit(Char(b, 1))
    THEN LET ra == DigitRunLen(a)
             rb == DigitRunLen(b)
             va == DigitsValue(SubSeq(a, 1, ra))
             vb == DigitsValue(SubSeq(b, 1, rb))
         IN  IF va # vb THEN Sign(va - vb)
             ELSE localeCompare(SubSeq(a, ra + 1, Len(a)), SubSeq(b, rb + 1, Len(b)))
    ELSE LET wa == CollationRank(Char(a, 1))
             wb == CollationRank(Char(b, 1))
         IN  IF wa # wb THEN Sign(wa - wb)
             ELSE localeCompare(Tail(a), Tail(b))

(***************************************************************************)
(* Raw cell values                                                         *)
(***************************************************************************)

Null == [t |-> "null", n |-> 0, s |-> ""]

Num(k) == [t |-> "num", n |-> k, s |-> ""]

Str(x) == [t |-> "str", n |-> 0, s |-> x]

\* String(value) for a non-null raw value.
StringOf(v) == IF v.t = "num" THEN IntToString(v.n) ELSE v.s

(***************************************************************************)
(* The comparator of the sortable tables                                   *)
(***************************************************************************)

\* parseMaybeNumber: a finite number is itself; a string is parsed after
\* its commas are removed and it is trimmed; the result with nan = TRUE
\* stands for the code's null.
parseMaybeNumber(value) ==
    IF value.t = "num" THEN Number(value.n, 0)
    ELSE IF value.t = "str"
    THEN LET normalized == Trim(RemoveChars(value.s, {","}))
         IN  IF normalized = "" THEN NaN ELSE JsNumber(normalized)
    ELSE NaN

\* compareValues, reduced to the sign of its result (its callers read the
\* sign only: order !== 0, order * multiplier, -order).
compareValues(a, b) ==
    IF a.t = "null" /\ b.t = "null" THEN 0
    ELSE IF a.t = "null" THEN 1
    ELSE IF b.t = "null" THEN -1
    ELSE LET aNum == parseMaybeNumber(a)
             bNum == parseMaybeNumber(b)
         IN  IF ~aNum.nan /\ ~bNum.nan THEN NumCompare(aNum, bNum)
             ELSE localeCompare(StringOf(a), StringOf(b))

(***************************************************************************)
(* The value classification of answer cells                                *)
(***************************************************************************)

\* String.prototype.split on a one-character separator.
RECURSIVE Split(_, _)
Split(s, sep) ==
    IF ~Occurs(s, sep) THEN <<s>>
    ELSE LET i == CHOOSE k \in 1..Len(s) :
                      /\ Char(s, k) = sep
                      /\ \A j \in 1..(k - 1) : Char(s, j) # sep
         IN  <<SubSeq(s, 1, i - 1)>> \o Split(SubSeq(s, i + 1, Len(s)), sep)

\* parseDurationToSeconds: /^(\d{1,2}):(\d{2})(?::(\d{2}))?$/ on the trimmed
\* text gives hours * 3600 + minutes * 60 + seconds, anything else null.
parseDurationToSeconds(raw) ==
    LET parts == Split(Trim(raw), ":")
        twoDigits(p) == Len(p) = 2 /\ AllDigits(p)
    IN  IF /\ Len(parts) \in {2, 3}
           /\ Len(parts[1]) \in {1, 2}
           /\ AllDigits(parts[1])
           /\ \A i \in 2..Len(parts) : twoDigits(parts[i])
        THEN Number(DigitsValue(parts[1]) * 3600 + DigitsValue(parts[2]) * 60
                    + (IF Len(parts) = 3 THEN DigitsValue(parts[3]) ELSE 0), 0)
        ELSE NaN

\* parseAnswerNumber: empty text is null; a duration is its seconds;
\* otherwise %, $, commas and white space are removed and the rest goes to
\* Number(), a result that is not finite being null.
parseAnswerNumber(raw) ==
    IF raw = "" THEN NaN
    ELSE LET duration == parseDurationToSeconds(raw)
         IN  IF ~duration.nan THEN duration
             ELSE JsNumber(RemoveChars(raw, {"%", ",", "$", " ", "\t", "\r", "\n"}))

(***************************************************************************)
(* Optional values (null | T) are sequences of length at most one.         *)
(***************************************************************************)

None == <<>>

Some(x) == <<x>>

\* JavaScript truthiness of a string | null.
Truthy(opt) == opt # None /\ opt[1] # ""

(***************************************************************************)
(* Array.prototype.sort(comparefn) on an array of n elements, as a view of *)
(* element indices.  The sort is stable; with a consistent comparator the  *)
(* result is the one permutation below.  With an inconsistent comparator   *)
(* the order is implementation-defined: each comparison sort leaves every  *)
(* pair of neighbours in comparator order, and any such permutation is a   *)
(* possible outcome.                                                       *)
(***************************************************************************)

\* The arrangements of the elements of S, as sequences.
RECURSIVE Arrangements(_)
Arrangements(S) ==
    IF S = {} THEN {<<>>}
    ELSE UNION {{<<x>> \o p : p \in Arrangements(S \ {x})} : x \in S}

Permutations(n) == Arrangements(1..n)

\* comparefn is given as the table of its results on the element indices.
ArraySort(n, comparefn) ==
    {p \in Permutations(n) :
        \A i \in 1..(n - 1) :
            \E order \in {comparefn[p[i], p[i + 1]]} :
                order < 0 \/ (order = 0 /\ p[i] < p[i + 1])}

(***************************************************************************)
(* ReportPanel: sort state and sorted view of a report table               *)
(***************************************************************************)

\* row[key]: undefined (here Null) when the row has no such key.
Cell(row, key) == IF key \in DOMAIN row THEN row[key] ELSE Null

\* A faulty handleSort: a third click on the column removes the sort.
ReportPanel_handleSort_ThreeState(prev, column) ==
    IF prev # None /\ prev[1].key = column
    THEN IF prev[1].direction = "asc"
         THEN Some([key |-> column, direction |-> "desc"])
         ELSE None
    ELSE Some([key |-> column, direction |-> "asc"])

\* ReportPanel.handleSort: the updater given to setSortConfig.
ReportPanel_handleSort(prev, column) ==
    IF prev # None /\ prev[1].key = column
    THEN Some([key |-> column,
               direction |-> IF prev[1].direction = "asc" THEN "desc" ELSE "asc"])
    ELSE Some([key |-> column, direction |-> "asc"])

\* The comparator of ReportPanel.sortedRows on row indices.
ReportPanel_compareRows(rows, config, left, right) ==
    LET multiplier == IF config.direction = "asc" THEN 1 ELSE -1
        order == compareValues(Cell(rows[left], config.key),
                               Cell(rows[right], config.key))
    IN  IF order # 0 THEN order * multiplier ELSE left - right

\* ReportPanel.sortedRows (useMemo): the possible views, as row indices.
ReportPanel_sortedRows(rows, sortCfg) ==
    IF sortCfg = None THEN {[i \in 1..Len(rows) |-> i]}
    ELSE ArraySort(Len(rows),
                   [l \in 1..Len(rows), r \in 1..Len(rows) |->
                       ReportPanel_compareRows(rows, sortCfg[1], l, r)])

(***************************************************************************)
(* LandingPageHighlights: field resolution and the ranked views            *)
(***************************************************************************)

PageCandidates == <<"Landing Page", "landingPage", "Page", "page">>

RevenueCandidates == <<"Purchase Revenue", "purchaseRevenue", "Revenue", "revenue">>

RevenuePerSessionCandidates == <<"Revenue per Session", "revenue_per_session">>

\* A faulty pickFirstKey: the last candidate that is a key of the first row.
pickFirstKey_Last(rows, candidates) ==
    IF Len(rows) = 0 THEN None
    ELSE LET found == {c \in 1..Len(candidates) : candidates[c] \in DOMAIN rows[1]}
         IN  IF found = {} THEN None
             ELSE Some(candidates[CHOOSE c \in found : \A d \in found : d <= c])

\* pickFirstKey: candidates.find(key => keys.has(key)) ?? null over the keys
\* of rows[0]; null (None) for no rows.
pickFirstKey(rows, candidates) ==
    IF Len(rows) = 0 THEN None
    ELSE LET found == {c \in 1..Len(candidates) : candidates[c] \in DOMAIN rows[1]}
         IN  IF found = {} THEN None
             ELSE Some(candidates[CHOOSE c \in found : \A d \in found : c <= d])

\* String(value ?? "")
StringOrEmpty(value) == IF value.t = "null" THEN "" ELSE StringOf(value)

\* The first .map of buildRankedRows on one row.
RankedRow(row, pageKey, valueKey) ==
    [label        |-> StringOrEmpty(Cell(row, pageKey)),
     rawValue     |-> Cell(row, valueKey),
     numericValue |-> parseMaybeNumber(Cell(row, valueKey))]

\* The two filters of buildRankedRows on one mapped row.
RankKeeps(ranked, excludeZero) ==
    /\ Trim(ranked.label) # ""
    /\ (~excludeZero \/ ranked.numericValue.nan \/ ranked.numericValue.m # 0)

\* The indices of the rows of data that pass the filters, in data order.
RankKept(data, pageKey, valueKey, excludeZero) ==
    SelectSeq([i \in 1..Len(data) |-> i],
              LAMBDA i : RankKeeps(RankedRow(data[i], pageKey, valueKey), excludeZero))

\* The length of .slice(0, limit) of an array of n elements.
RankSlice(n, limit) == IF limit < n THEN limit ELSE n

\* The .sort of buildRankedRows: the possible orders of the kept rows, as
\* indices of data.
RankOrders(data, pageKey, valueKey, direction, excludeZero) ==
    LET kept == RankKept(data, pageKey, valueKey, excludeZero)
        raw(k) == Cell(data[kept[k]], valueKey)
        orders == ArraySort(Len(kept),
                            [l \in 1..Len(kept), r \in 1..Len(kept) |->
                                IF direction = "asc"
                                THEN compareValues(raw(l), raw(r))
                                ELSE 0 - compareValues(raw(l), raw(r))])
    IN  { [k \in 1..Len(kept) |-> kept[p[k]]] : p \in orders }

\* .slice(0, limit) and the last .map of buildRankedRows on a sorted order.
RankProject(data, order, pageKey, valueKey, limit) ==
    [k \in 1..RankSlice(Len(order), limit) |->
        [label |-> StringOrEmpty(Cell(data[order[k]], pageKey)),
         value |-> StringOrEmpty(Cell(data[order[k]], valueKey))]]

\* buildRankedRows: the possible results (one for each result of sort),
\* each a sequence of [label, value].
buildRankedRows(data, pageKey, valueKey, direction, limit, excludeZero) ==
    { RankProject(data, order, pageKey, valueKey, limit) :
      order \in RankOrders(data, pageKey, valueKey, direction, excludeZero) }

\* A faulty chain: sort is called on report.data itself, which moves the
\* sorted rows to the front of the array that the report holds.
RankDataAfter_SortedInPlace(data, order) ==
    [k \in 1..Len(data) |-> IF k <= Len(order) THEN data[order[k]] ELSE data[k]]

\* report.data after a call of buildRankedRows: .map returns a new array,
\* and the filters, sort (which reorders its receiver) and slice work on
\* that one, so the array of the report keeps its rows and their order.
RankDataAfter(data, order) == data

\* What LandingPageHighlights renders: a message, or the four blocks.
Highlights(kind, keys, blocks) == [kind |-> kind, keys |-> keys, blocks |-> blocks]

\* The possible outputs of LandingPageHighlights for a report (None: no
\* report with the id "landing_pages").
LandingPageHighlights(report) ==
    IF report = None THEN {Highlights("no_report", <<>>, <<>>)}
    ELSE IF Len(report[1]) = 0 THEN {Highlights("no_data", <<>>, <<>>)}
    ELSE LET data == report[1]
             pageKey == pickFirstKey(data, PageCandidates)
             revenueKey == pickFirstKey(data, RevenueCandidates)
             revenuePerSessionKey == pickFirstKey(data, RevenuePerSessionCandidates)
         IN  IF pageKey = None \/ revenueKey = None \/ revenuePerSessionKey = None
             THEN {Highlights("fields_unavailable", <<>>, <<>>)}
             ELSE { Highlights("blocks",
                               <<pageKey[1], revenueKey[1], revenuePerSessionKey[1]>>,
                               <<topRevenue, topPerSession, bottomRevenue, bottomPerSession>>) :
                    topRevenue \in
                        buildRankedRows(data, pageKey[1], revenueKey[1], "desc", 5, FALSE),
                    topPerSession \in
                        buildRankedRows(data, pageKey[1], revenuePerSessionKey[1], "desc", 5, FALSE),
                    bottomRevenue \in
                        buildRankedRows(data, pageKey[1], revenueKey[1], "asc", 5, TRUE),
                    bottomPerSession \in
                        buildRankedRows(data, pageKey[1], revenuePerSessionKey[1], "asc", 5, TRUE) }

(***************************************************************************)
(* AnswerTable: sort state and sorted view of a parsed answer table        *)
(***************************************************************************)

\* row[colIdx] ?? "" (colIdx counted from 1 here).
AnswerCellText(row, colIdx) == IF colIdx <= Len(row) THEN row[colIdx] ELSE ""

\* AnswerTable.handleSort: the updater given to setSortConfig.
AnswerTable_handleSort(prev, colIdx) ==
    IF prev # None /\ prev[1].colIdx = colIdx
    THEN Some([colIdx |-> colIdx,
               direction |-> IF prev[1].direction = "asc" THEN "desc" ELSE "asc"])
    ELSE Some([colIdx |-> colIdx, direction |-> "asc"])

\* The comparator of AnswerTable.sortedRows on row indices.
AnswerTable_compareRows(rows, config, left, right) ==
    LET multiplier == IF config.direction = "asc" THEN 1 ELSE -1
        leftValue  == Str(AnswerCellText(rows[left], config.colIdx))
        rightValue == Str(AnswerCellText(rows[right], config.colIdx))
        order == compareValues(leftValue, rightValue)
    IN  IF order # 0 THEN order * multiplier ELSE left - right

\* AnswerTable.sortedRows (useMemo): the possible views, as row indices.
AnswerTable_sortedRows(rows, sortCfg) ==
    IF sortCfg = None THEN {[i \in 1..Len(rows) |-> i]}
    ELSE ArraySort(Len(rows),
                   [l \in 1..Len(rows), r \in 1..Len(rows) |->
                       AnswerTable_compareRows(rows, sortCfg[1], l, r)])

(***************************************************************************)
(* parseAnswerBlocks: the answer text as a sequence of typed blocks.       *)
(* The bullet glyph U+2022 is written "*" in the model's texts.            *)
(***************************************************************************)

Bullet == "*"

StartsWith(s, prefix) ==
    Len(s) >= Len(prefix) /\ SubSeq(s, 1, Len(prefix)) = prefix

EndsWith(s, suffix) ==
    Len(s) >= Len(suffix) /\ SubSeq(s, Len(s) - Len(suffix) + 1, Len(s)) = suffix

HeadingBlock(text) ==
    [type |-> "heading", text |-> text, items |-> <<>>, headers |-> <<>>, rows |-> <<>>]

ParagraphBlock(text) ==
    [type |-> "paragraph", text |-> text, items |-> <<>>, headers |-> <<>>, rows |-> <<>>]

ListBlock(items) ==
    [type |-> "list", text |-> "", items |-> items, headers |-> <<>>, rows |-> <<>>]

TableBlock(headers, rows) ==
    [type |-> "table", text |-> "", items |-> <<>>, headers |-> headers, rows |-> rows]

\* answer.split(/\r?\n/)
SplitLines(answer) ==
    LET pieces == Split(answer, "\n")
    IN  [i \in 1..Len(pieces) |->
            IF i < Len(pieces) /\ EndsWith(pieces[i], "\r")
            THEN SubSeq(pieces[i], 1, Len(pieces[i]) - 1)
            ELSE pieces[i]]

\* lines[i]?.trim() ?? ""   (i counted from 1)
LineAt(lines, i) == IF i <= Len(lines) THEN Trim(lines[i]) ELSE ""

\* parseTableRow
parseTableRow(line) ==
    LET trimmed     == Trim(line)
        normalized  == IF StartsWith(trimmed, "|") THEN Tail(trimmed) ELSE trimmed
        withoutEdge == IF EndsWith(normalized, "|")
                       THEN SubSeq(normalized, 1, Len(normalized) - 1)
                       ELSE normalized
        cells       == Split(withoutEdge, "|")
    IN  [i \in 1..Len(cells) |-> Trim(cells[i])]

\* isTableSeparator: /^\s*\|?[-:\s|]+\|?\s*$/
isTableSeparator(line) ==
    /\ line # ""
    /\ \A i \in 1..Len(line) : Char(line, i) \in {"-", ":", "|"} \/ IsSpace(Char(line, i))

\* Length of the run of white space that starts s.
RECURSIVE SpaceRunLen(_)
SpaceRunLen(s) ==
    IF s # "" /\ IsSpace(Char(s, 1)) THEN 1 + SpaceRunLen(Tail(s)) ELSE 0

\* Length of the match of /\s+c\s+/ at the start of s, 0 when there is none.
SpacedMatchLen(s, c) ==
    LET a    == SpaceRunLen(s)
        rest == SubSeq(s, a + 2, Len(s))
        b    == SpaceRunLen(rest)
    IN  IF a > 0 /\ Len(s) > a /\ Char(s, a + 1) = c /\ b > 0 THEN a + 1 + b ELSE 0

\* Length of the match of the item separator at the start of s:
\* /\s+-\s+|\s+*\s+|*/ with the dash alternative, /\s+*\s+|*/ without.
SeparatorMatchLen(s, withDash) ==
    IF withDash /\ SpacedMatchLen(s, "-") > 0 THEN SpacedMatchLen(s, "-")
    ELSE IF SpacedMatchLen(s, Bullet) > 0 THEN SpacedMatchLen(s, Bullet)
    ELSE IF StartsWith(s, Bullet) THEN 1
    ELSE 0

\* String.prototype.split on the item separator.
RECURSIVE SplitItems(_, _, _)
SplitItems(s, withDash, from) ==
    IF from > Len(s) THEN <<s>>
    ELSE LET m == SeparatorMatchLen(SubSeq(s, from, Len(s)), withDash)
         IN  IF m > 0
             THEN <<SubSeq(s, 1, from - 1)>>
                  \o SplitItems(SubSeq(s, from + m, Len(s)), withDash, 1)
             ELSE SplitItems(s, withDash, from + 1)

\* part.replace(/^[-*]\s*/, "").trim()
CleanItem(part) ==
    IF part # "" /\ Char(part, 1) \in {"-", Bullet}
    THEN Trim(Tail(part))
    ELSE Trim(part)

\* split(...).map(clean).filter(Boolean)
ItemsOf(line, withDash) ==
    LET parts   == SplitItems(line, withDash, 1)
        cleaned == [i \in 1..Len(parts) |-> CleanItem(parts[i])]
    IN  SelectSeq(cleaned, LAMBDA item : item # "")

IsListLine(line) == StartsWith(line, "- ") \/ StartsWith(line, Bullet)

IsTableStart(lines, i) ==
    Occurs(LineAt(lines, i), "|") /\ isTableSeparator(LineAt(lines, i + 1))

\* First index at or after i that ends a table body.
RECURSIVE TableEnd(_, _)
TableEnd(lines, i) ==
    IF i <= Len(lines) /\ Trim(lines[i]) # "" THEN TableEnd(lines, i + 1) ELSE i

\* First index at or after i that is no list line.
RECURSIVE ListEnd(_, _)
ListEnd(lines, i) ==
    IF i <= Len(lines) /\ IsListLine(Trim(lines[i])) THEN ListEnd(lines, i + 1) ELSE i

\* First index at or after i that ends a paragraph run.
RECURSIVE ParagraphEnd(_, _)
ParagraphEnd(lines, i) ==
    IF /\ i <= Len(lines)
       /\ Trim(lines[i]) # ""
       /\ ~StartsWith(Trim(lines[i]), "##")
       /\ ~IsTableStart(lines, i)
       /\ ~StartsWith(Trim(lines[i]), "- ")
    THEN ParagraphEnd(lines, i + 1)
    ELSE i

RECURSIVE ConcatItems(_, _, _)
ConcatItems(lines, from, to) ==
    IF from >= to THEN <<>>
    ELSE ItemsOf(Trim(lines[from]), TRUE) \o ConcatItems(lines, from + 1, to)

RECURSIVE JoinLines(_, _, _)
JoinLines(lines, from, to) ==
    IF from >= to THEN ""
    ELSE IF from + 1 = to THEN Trim(lines[from])
    ELSE Trim(lines[from]) \o " " \o JoinLines(lines, from + 1, to)

\* trimmed.replace(/^#+\s*/, "")
RECURSIVE StripHashes(_)
StripHashes(s) == IF StartsWith(s, "#") THEN StripHashes(Tail(s)) ELSE TrimStart(s)

\* The scan loop of parseAnswerBlocks from line i on.
RECURSIVE ParseFrom(_, _)
ParseFrom(lines, i) ==
    IF i > Len(lines) THEN <<>>
    ELSE LET trimmed == Trim(lines[i])
         IN  IF trimmed = "" THEN ParseFrom(lines, i + 1)
             ELSE IF StartsWith(trimmed, "##")
             THEN <<HeadingBlock(StripHashes(trimmed))>> \o ParseFrom(lines, i + 1)
             ELSE IF IsTableStart(lines, i)
             THEN LET stop == TableEnd(lines, i + 2)
                  IN  <<TableBlock(parseTableRow(trimmed),
                                   [k \in 1..(stop - (i + 2)) |->
                                       parseTableRow(lines[i + 1 + k])])>>
                      \o ParseFrom(lines, stop)
             ELSE IF IsListLine(trimmed)
             THEN LET stop == ListEnd(lines, i)
                  IN  <<ListBlock(ConcatItems(lines, i, stop))>> \o ParseFrom(lines, stop)
             ELSE IF Occurs(trimmed, Bullet) /\ Len(ItemsOf(trimmed, FALSE)) > 1
             THEN <<ListBlock(ItemsOf(trimmed, FALSE))>> \o ParseFrom(lines, i + 1)
             ELSE LET stop == ParagraphEnd(lines, i)
                  IN  <<ParagraphBlock(JoinLines(lines, i, stop))>>
                      \o ParseFrom(lines, stop)

parseAnswerBlocks(answer) == ParseFrom(SplitLines(answer), 1)

\* A faulty scan: the branch of the blank line forgets i += 1.
ScanNext_BlankStays(lines, i) ==
    IF Trim(lines[i]) = "" THEN i
    ELSE IF StartsWith(Trim(lines[i]), "##") THEN i + 1
    ELSE IF IsTableStart(lines, i) THEN TableEnd(lines, i + 2)
    ELSE IF IsListLine(Trim(lines[i])) THEN ListEnd(lines, i)
    ELSE IF Occurs(Trim(lines[i]), Bullet) /\ Len(ItemsOf(Trim(lines[i]), FALSE)) > 1
    THEN i + 1
    ELSE ParagraphEnd(lines, i)

\* One iteration of the outer while loop of parseAnswerBlocks that starts
\* with the line index at i <= Len(lines): the line index it leaves.
ScanNext(lines, i) ==
    IF Trim(lines[i]) = "" THEN i + 1
    ELSE IF StartsWith(Trim(lines[i]), "##") THEN i + 1
    ELSE IF IsTableStart(lines, i) THEN TableEnd(lines, i + 2)
    ELSE IF IsListLine(Trim(lines[i])) THEN ListEnd(lines, i)
    ELSE IF Occurs(Trim(lines[i]), Bullet) /\ Len(ItemsOf(Trim(lines[i]), FALSE)) > 1
    THEN i + 1
    ELSE ParagraphEnd(lines, i)

\* A faulty scan: the bullet-prefix rule is tried before the table rule.
ScanPush_ListFirst(lines, i) ==
    LET trimmed == Trim(lines[i])
    IN  IF trimmed = "" THEN <<>>
        ELSE IF StartsWith(trimmed, "##") THEN <<HeadingBlock(StripHashes(trimmed))>>
        ELSE IF IsListLine(trimmed)
        THEN <<ListBlock(ConcatItems(lines, i, ListEnd(lines, i)))>>
        ELSE IF IsTableStart(lines, i)
        THEN <<TableBlock(parseTableRow(trimmed),
                          [k \in 1..(TableEnd(lines, i + 2) - (i + 2)) |->
                              parseTableRow(lines[i + 1 + k])])>>
        ELSE IF Occurs(trimmed, Bullet) /\ Len(ItemsOf(trimmed, FALSE)) > 1
        THEN <<ListBlock(ItemsOf(trimmed, FALSE))>>
        ELSE <<ParagraphBlock(JoinLines(lines, i, ParagraphEnd(lines, i)))>>

\* The same iteration: the blocks it pushes (none for a blank line).
ScanPush(lines, i) ==
    LET trimmed == Trim(lines[i])
    IN  IF trimmed = "" THEN <<>>
        ELSE IF StartsWith(trimmed, "##") THEN <<HeadingBlock(StripHashes(trimmed))>>
        ELSE IF IsTableStart(lines, i)
        THEN <<TableBlock(parseTableRow(trimmed),
                          [k \in 1..(TableEnd(lines, i + 2) - (i + 2)) |->
                              parseTableRow(lines[i + 1 + k])])>>
        ELSE IF IsListLine(trimmed)
        THEN <<ListBlock(ConcatItems(lines, i, ListEnd(lines, i)))>>
        ELSE IF Occurs(trimmed, Bullet) /\ Len(ItemsOf(trimmed, FALSE)) > 1
        THEN <<ListBlock(ItemsOf(trimmed, FALSE))>>
        ELSE <<ParagraphBlock(JoinLines(lines, i, ParagraphEnd(lines, i)))>>

(***************************************************************************)
(* AnswerRenderer: which list items are insights                           *)
(***************************************************************************)

RECURSIVE ToLowerCase(_)
ToLowerCase(s) ==
    IF s = "" THEN ""
    ELSE (IF Occurs(UpperLetters, Char(s, 1))
          THEN Char(LowerLetters, IndexOf(UpperLetters, Char(s, 1)))
          ELSE Char(s, 1)) \o ToLowerCase(Tail(s))

\* activeSection when the render loop reaches block `index` (from 1): the
\* text of the last heading before it, trimmed and lower-cased, else "".
RECURSIVE ActiveSection(_, _)
ActiveSection(blocks, index) ==
    IF index <= 1 THEN ""
    ELSE IF blocks[index - 1].type = "heading"
    THEN ToLowerCase(Trim(blocks[index - 1].text))
    ELSE ActiveSection(blocks, index - 1)

\* The heading text as the render loop would keep it without lower-casing.
RECURSIVE ActiveSection_CaseKept(_, _)
ActiveSection_CaseKept(blocks, index) ==
    IF index <= 1 THEN ""
    ELSE IF blocks[index - 1].type = "heading"
    THEN Trim(blocks[index - 1].text)
    ELSE ActiveSection_CaseKept(blocks, index - 1)

\* A faulty test of the section: the heading is compared as written.
isInsightsSection_CaseKept(blocks, index) ==
    ActiveSection_CaseKept(blocks, index) = "insights"

isInsightsSection(blocks, index) == ActiveSection(blocks, index) = "insights"

\* `${index}-${itemIdx}` (both counted from 0 in the code, from 1 here).
InsightId(index, itemIdx) ==
    IntToString(index - 1) \o "-" \o IntToString(itemIdx - 1)

\* The ids of the list items rendered with the two follow-up buttons.
InsightIds(blocks) ==
    UNION {{InsightId(index, itemIdx) : itemIdx \in 1..Len(blocks[index].items)} :
              index \in {i \in 1..Len(blocks) :
                            blocks[i].type = "list" /\ isInsightsSection(blocks, i)}}

\* The position of the first table block of the answer, 0 when there is
\* none: the block of the modelled AnswerTable instance.
FirstTableIndex(blocks) ==
    LET tables == {i \in 1..Len(blocks) : blocks[i].type = "table"}
    IN  IF tables = {} THEN 0 ELSE CHOOSE i \in tables : \A j \in tables : i <= j

(***************************************************************************)
(* AnswerRenderer: the follow-up state map and its three updaters          *)
(***************************************************************************)

EmptyMap == <<>>

\* prev[insightId] ?? {}  (an absent loading, basis, deepDive or error is None)
EmptyEntry == [loading |-> None, basis |-> None, deepDive |-> None, error |-> None]

Entry(map, id) == IF id \in DOMAIN map THEN map[id] ELSE EmptyEntry

\* A faulty updater: the spread of prev is forgotten.
WithEntry_NoSpread(prev, id, entry) == [k \in {id} |-> entry]

\* { ...prev, [insightId]: entry }
WithEntry(prev, id, entry) ==
    [k \in (DOMAIN prev) \cup {id} |-> IF k = id THEN entry ELSE prev[k]]

\* The updater of the request start.
followupStart(prev, insightId, action) ==
    WithEntry(prev, insightId,
              [Entry(prev, insightId) EXCEPT !.loading = Some(action), !.error = None])

\* A faulty success branch: the entry is rebuilt with the new result only.
followupSuccess_DropsOther(prev, insightId, action, resultAnswer) ==
    WithEntry(prev, insightId,
              [loading  |-> None,
               error    |-> None,
               basis    |-> IF action = "basis" THEN Some(resultAnswer) ELSE None,
               deepDive |-> IF action = "deep_dive" THEN Some(resultAnswer) ELSE None])

\* The updater of the success branch.
followupSuccess(prev, insightId, action, resultAnswer) ==
    WithEntry(prev, insightId,
              [loading  |-> None,
               error    |-> None,
               basis    |-> IF action = "basis" THEN Some(resultAnswer)
                            ELSE Entry(prev, insightId).basis,
               deepDive |-> IF action = "deep_dive" THEN Some(resultAnswer)
                            ELSE Entry(prev, insightId).deepDive])

\* A faulty catch branch: the entry is rebuilt with the error only.
followupFailure_DropsResults(prev, insightId, message) ==
    WithEntry(prev, insightId, [EmptyEntry EXCEPT !.error = Some(message)])

\* A faulty catch branch: the loading flag is left as it was.
followupFailure_StillLoading(prev, insightId, message) ==
    WithEntry(prev, insightId, [Entry(prev, insightId) EXCEPT !.error = Some(message)])

\* The updater of the catch branch.
followupFailure(prev, insightId, message) ==
    WithEntry(prev, insightId,
              [Entry(prev, insightId) EXCEPT !.loading = None, !.error = Some(message)])

\* A faulty delivery: the update of an unmounted instance reaches the
\* instance on screen.
DeliverFollowups_Always(live, current, next) == next

\* setInsightFollowups called by a continuation of an AnswerRenderer
\* instance: React applies the update to that instance's state; the update
\* of an instance that is no longer mounted changes nothing on screen.
DeliverFollowups(live, current, next) == IF live THEN next ELSE current

(***************************************************************************)
(* HomePage: what is mounted                                               *)
(***************************************************************************)

\* visibleReports
VisibleReports(reps, selected) == SelectSeq(reps, LAMBDA r : r.id \in selected)

ReportIdsOf(reps) == {reps[i].id : i \in 1..Len(reps)}

\* A faulty canAsk: a request in flight does not disable the question.
canAsk_WhileAsking(reps, selected, q, asking) ==
    Len(VisibleReports(reps, selected)) > 0 /\ Len(Trim(q)) > 0

\* canAsk
canAsk(reps, selected, q, asking) ==
    Len(VisibleReports(reps, selected)) > 0 /\ Len(Trim(q)) > 0 /\ ~asking

\* <ReportsContainer> is rendered unless reports are loaded and none selected.
ContainerMounted(reps, selected) ==
    ~(Len(reps) > 0 /\ Len(VisibleReports(reps, selected)) = 0)

\* <ReportPanel> is rendered by the container when it has a report.
PanelMounted(reps, selected) == Len(VisibleReports(reps, selected)) > 0

\* {answer && <AnswerRenderer .../>} inside the chat panel, which is
\* rendered when a report is visible.
RendererMounted(reps, selected, ans) ==
    Len(VisibleReports(reps, selected)) > 0 /\ Truthy(ans)

\* A faulty renderer: the follow-up map outlives the answer.
AnswerRenderer_followups_Kept(wasMounted, isMounted, oldAnswer, newAnswer, map) ==
    map

\* The state of the AnswerRenderer of the next render: a fresh instance
\* starts from useState({}), and the effect on [answer] empties the map of
\* an instance whose answer prop changed.
AnswerRenderer_followups(wasMounted, isMounted, oldAnswer, newAnswer, map) ==
    IF ~isMounted \/ ~wasMounted THEN EmptyMap
    ELSE IF oldAnswer # newAnswer THEN EmptyMap
    ELSE map

\* ReportsContainer: the effect that keeps activeReportId on a report.
syncActiveReportId(active, visible) ==
    IF Len(visible) = 0 THEN None
    ELSE IF active = None \/ active[1] \notin ReportIdsOf(visible)
    THEN Some(visible[1].id)
    ELSE active

\* reports.find((report) => report.id === activeReportId) ?? reports[0]
ActiveReport(visible, active) ==
    IF active # None /\ active[1] \in ReportIdsOf(visible)
    THEN visible[CHOOSE i \in 1..Len(visible) :
                    /\ visible[i].id = active[1]
                    /\ \A j \in 1..(i - 1) : visible[j].id # active[1]]
    ELSE visible[1]

(***************************************************************************)
(* Inputs of the model                                                     *)
(***************************************************************************)

\* Bound on the header clicks recorded per table instance.
MaxClicks == 3

\* Bound on the follow-up calls in flight at one time.
MaxInFlight == 2

\* promptButtons (labels)
PromptLabels ==
    {"Traffic quality assessment", "Conversion funnel leakage",
     "Landing page optimization"}

TypedQuestions == {"", "Why did revenue drop?"}

\* Report rows returned by fetchCoreReports.
StableRows ==
    << [page |-> Str("/a"), k |-> Num(1)],
       [page |-> Str("/b"), k |-> Num(1)],
       [page |-> Str("/c"), k |-> Num(2)] >>

MixedRows ==
    << [page |-> Str("/a"), k |-> Str("1000")],
       [page |-> Str("/b"), k |-> Str("2a")],
       [page |-> Str("/c"), k |-> Str("1,000")] >>

MissingRows ==
    << [page |-> Str("/a"), k |-> Num(3)],
       [page |-> Str("/b")],
       [page |-> Str("/c"), k |-> Num(1)] >>

Report(id, data) == [id |-> id, data |-> data]

\* result.reports of handleLoadReports, for the table specification.
TableLoadResults ==
    { <<Report("r1", StableRows), Report("r2", MixedRows)>>,
      <<Report("r1", MissingRows), Report("r2", StableRows)>> }

\* result.reports of handleLoadReports, for the question specification.
AskLoadResults == {<<Report("r1", StableRows)>>}

\* Answers of runAnalysis.
InsightsAnswer == "## Insights\n- Revenue up 5%\n- Sessions down 2%"

SecondAnswer == "## INSIGHTS\n* Bounce rate high\n## Next\n- Wait"

TableAnswer == "| Page | Sessions |\n|---|---|\n| /a | 1000 |\n| /b | 2a |\n| /c | 1,000 |"

ShortRowAnswer == "Top pages\n| k | idx |\n|---|---|\n| 1 | 0 |\n| 1 | 1 |\n| 2 |"

AskAnswers == {InsightsAnswer, SecondAnswer, ""}

TableAnswers == {TableAnswer, ShortRowAnswer}

ErrorMessages == {"Request failed: 500"}

FollowupAnswers == {"Based on paid search."}

FollowupActions == {"basis", "deep_dive"}

\* Raw cell values given to the comparator.
CmpValues ==
    { Null, Str(""), Num(5), Str("5"), Str("abc"), Str("2a"),
      Str("1000"), Str("1,000"), Str("999"), Str("$1,000"), Str("$999"),
      Str("1.5%"), Str("1.25%"), Str("1:30"), Str("45") }

(***************************************************************************)
(* State                                                                   *)
(***************************************************************************)

VARIABLES
    reports,            \* HomePage: loaded report payloads
    selectedReportIds,  \* HomePage: ids selected for tables and AI
    question,           \* HomePage: question text
    answer,             \* HomePage: latest answer, None while there is none
    isAsking,           \* HomePage: a top-level analysis request is in flight
    askCalls,           \* runAnalysis calls of handleAsk / handleQuickPrompt in flight
    activeReportId,     \* ReportsContainer: id of the shown report
    isFullscreen,       \* ReportsContainer: panel shown in the overlay
    sortConfig,         \* ReportPanel: None or [key, direction]
    sortedRows,         \* ReportPanel: the memoised view (row indices)
    sortClicks,         \* ReportPanel: header clicks since the panel mounted
    blocks,             \* AnswerRenderer: memoised parseAnswerBlocks(answer)
    insightFollowups,   \* AnswerRenderer: follow-up state by insight id
    followupReqs,       \* follow-up calls in flight: [id, action, live, superseded]
    answerSortConfig,   \* AnswerTable: None or [colIdx, direction]
    answerSortedRows,   \* AnswerTable: the memoised view (row indices)
    answerSortClicks,   \* AnswerTable: header clicks since the table mounted
    cmpLeft, cmpRight,  \* comparator harness: the two raw values
    cmpOrder,           \* comparator harness: None or the sign compareValues gave
    cmpThird,           \* comparator harness: a third raw value
    cmpOrders,          \* comparator harness: None or the signs for the pairs
    cellText,           \* classification harness: the text of an answer cell
    cellNumber,         \* classification harness: None or what parseAnswerNumber gave
    scanAnswer,         \* parseAnswerBlocks: its argument
    scanLines,          \* parseAnswerBlocks: lines
    scanIndex,          \* parseAnswerBlocks: i (counted from 1)
    scanBlocks,         \* parseAnswerBlocks: blocks
    scanReturned,       \* parseAnswerBlocks: None or the returned blocks
    rankReport,         \* LandingPageHighlights: None or the data of its report
    rankOutcome,        \* LandingPageHighlights: None or what it rendered
    rankCall            \* buildRankedRows: None or the arguments and result of a call

homeVars == <<reports, selectedReportIds, question, answer, isAsking, askCalls>>

panelVars == <<activeReportId, isFullscreen, sortConfig, sortedRows, sortClicks>>

rendererVars == <<blocks, insightFollowups, followupReqs>>

answerTableVars == <<answerSortConfig, answerSortedRows, answerSortClicks>>

cmpVars == <<cmpLeft, cmpRight, cmpOrder, cmpThird, cmpOrders>>

cellVars == <<cellText, cellNumber>>

scanVars == <<scanAnswer, scanLines, scanIndex, scanBlocks, scanReturned>>

rankVars == <<rankReport, rankOutcome, rankCall>>

harnessVars == <<cmpVars, cellVars, scanVars, rankVars>>

vars == <<homeVars, panelVars, rendererVars, answerTableVars, harnessVars>>

IdentityView(rows) == [i \in 1..Len(rows) |-> i]

\* The rows of the modelled AnswerTable for a block sequence.
AnswerTableRows(bs) ==
    IF FirstTableIndex(bs) = 0 THEN <<>> ELSE bs[FirstTableIndex(bs)].rows

AnswerTableHeaders(bs) ==
    IF FirstTableIndex(bs) = 0 THEN <<>> ELSE bs[FirstTableIndex(bs)].headers

\* The state after construction: nothing loaded, nothing asked.
InitApp ==
    /\ reports = <<>>
    /\ selectedReportIds = {}
    /\ question = ""
    /\ answer = None
    /\ isAsking = FALSE
    /\ askCalls = 0
    /\ activeReportId = None
    /\ isFullscreen = FALSE
    /\ sortConfig = None
    /\ sortedRows = <<>>
    /\ sortClicks = <<>>
    /\ blocks = <<>>
    /\ insightFollowups = EmptyMap
    /\ followupReqs = {}
    /\ answerSortConfig = None
    /\ answerSortedRows = <<>>
    /\ answerSortClicks = <<>>

CmpIdle ==
    /\ cmpLeft = Null
    /\ cmpRight = Null
    /\ cmpOrder = None
    /\ cmpThird = Null
    /\ cmpOrders = None

CellIdle == cellText = "" /\ cellNumber = None

ScanIdle ==
    /\ scanAnswer = ""
    /\ scanLines = <<>>
    /\ scanIndex = 1
    /\ scanBlocks = <<>>
    /\ scanReturned = None

RankIdle == rankReport = None /\ rankOutcome = None /\ rankCall = None

HarnessIdle == CmpIdle /\ CellIdle /\ ScanIdle /\ RankIdle

(***************************************************************************)
(* Rendering after a change of HomePage state: which components stay       *)
(* mounted, and the state of those that do not                             *)
(***************************************************************************)

\* The values of one render are bound once each (\E over a singleton).
Rerender(reps, selected, ans) ==
    \E visibleOld \in {VisibleReports(reports, selectedReportIds)},
       visible \in {VisibleReports(reps, selected)} :
    \E containerStays \in {/\ ContainerMounted(reports, selectedReportIds)
                           /\ ContainerMounted(reps, selected)},
       rendererWas \in {RendererMounted(reports, selectedReportIds, answer)},
       rendererIs \in {RendererMounted(reps, selected, ans)} :
    \E panelStays \in {/\ containerStays
                       /\ PanelMounted(reports, selectedReportIds)
                       /\ PanelMounted(reps, selected)},
       active \in {syncActiveReportId(
                       IF containerStays THEN activeReportId ELSE None, visible)},
       newBlocks \in {IF ~rendererIs THEN <<>>
                      ELSE IF rendererWas /\ ans = answer THEN blocks
                      ELSE parseAnswerBlocks(ans[1])} :
    \E config \in {IF panelStays THEN sortConfig ELSE None},
       tableOld \in {FirstTableIndex(blocks)},
       tableNew \in {FirstTableIndex(newBlocks)} :
    \E tableStays \in {rendererWas /\ rendererIs /\ tableOld # 0 /\ tableOld = tableNew},
       rowsNew \in {IF tableNew = 0 THEN <<>> ELSE newBlocks[tableNew].rows} :
        /\ activeReportId' = active
        /\ isFullscreen' = (containerStays /\ isFullscreen)
        /\ sortConfig' = config
        /\ sortClicks' = IF panelStays THEN sortClicks ELSE <<>>
        /\ sortedRows' \in
              IF Len(visible) = 0 THEN {<<>>}
              ELSE IF /\ panelStays
                      /\ ActiveReport(visible, active).data
                           = ActiveReport(visibleOld, activeReportId).data
              THEN {sortedRows}
              ELSE ReportPanel_sortedRows(ActiveReport(visible, active).data, config)
        /\ blocks' = newBlocks
        /\ insightFollowups' =
              AnswerRenderer_followups(rendererWas, rendererIs, answer, ans,
                                       insightFollowups)
        /\ followupReqs' =
              {[r EXCEPT !.live = (r.live /\ rendererWas /\ rendererIs),
                         !.superseded = (r.superseded \/ ans # answer)] :
                  r \in followupReqs}
        /\ answerSortConfig' = IF tableStays THEN answerSortConfig ELSE None
        /\ answerSortClicks' = IF tableStays THEN answerSortClicks ELSE <<>>
        /\ answerSortedRows' \in
              IF tableStays /\ rowsNew = AnswerTableRows(blocks)
              THEN {answerSortedRows}
              ELSE AnswerTable_sortedRows(
                       rowsNew, IF tableStays THEN answerSortConfig ELSE None)

(***************************************************************************)
(* HomePage handlers                                                       *)
(***************************************************************************)

\* handleLoadReports, at the point where fetchCoreReports has returned:
\* the reports are stored and all of them selected.
handleLoadReports(result) ==
    /\ reports' = result
    /\ selectedReportIds' = ReportIdsOf(result)
    /\ UNCHANGED <<question, answer, isAsking, askCalls>>
    /\ Rerender(result, ReportIdsOf(result), answer)
    /\ UNCHANGED harnessVars

\* toggleReportSelection (a checkbox of a loaded report)
toggleReportSelection(reportId) ==
    LET selected == IF reportId \in selectedReportIds
                    THEN selectedReportIds \ {reportId}
                    ELSE selectedReportIds \cup {reportId}
    IN  /\ reportId \in ReportIdsOf(reports)
        /\ selectedReportIds' = selected
        /\ UNCHANGED <<reports, question, answer, isAsking, askCalls>>
        /\ Rerender(reports, selected, answer)
        /\ UNCHANGED harnessVars

\* The textarea of the chat panel: setQuestion(event.target.value)
setQuestion(text) ==
    /\ Len(VisibleReports(reports, selectedReportIds)) > 0
    /\ question # text
    /\ question' = text
    /\ UNCHANGED <<reports, selectedReportIds, answer, isAsking, askCalls>>
    /\ UNCHANGED <<panelVars, rendererVars, answerTableVars, harnessVars>>

\* handleAsk up to its await: the request starts and the answer is cleared.
handleAsk ==
    /\ canAsk(reports, selectedReportIds, question, isAsking)
    /\ isAsking' = TRUE
    /\ askCalls' = askCalls + 1
    /\ answer' = None
    /\ UNCHANGED <<reports, selectedReportIds, question>>
    /\ Rerender(reports, selectedReportIds, None)
    /\ UNCHANGED harnessVars

\* handleQuickPrompt up to its await.
handleQuickPrompt(label) ==
    /\ ~(Len(VisibleReports(reports, selectedReportIds)) = 0 \/ isAsking)
    /\ isAsking' = TRUE
    /\ askCalls' = askCalls + 1
    /\ answer' = None
    /\ question' = label
    /\ UNCHANGED <<reports, selectedReportIds>>
    /\ Rerender(reports, selectedReportIds, None)
    /\ UNCHANGED harnessVars

\* handleAsk / handleQuickPrompt after the await, runAnalysis fulfilled:
\* setAnswer(result.answer), then setIsAsking(false).
AskResolved(resultAnswer) ==
    /\ askCalls > 0
    /\ answer' = Some(resultAnswer)
    /\ isAsking' = FALSE
    /\ askCalls' = askCalls - 1
    /\ UNCHANGED <<reports, selectedReportIds, question>>
    /\ Rerender(reports, selectedReportIds, Some(resultAnswer))
    /\ UNCHANGED harnessVars

\* handleAsk / handleQuickPrompt after the await, runAnalysis rejected:
\* setAnswer(err.message), then setIsAsking(false).
AskRejected(message) ==
    /\ askCalls > 0
    /\ answer' = Some(message)
    /\ isAsking' = FALSE
    /\ askCalls' = askCalls - 1
    /\ UNCHANGED <<reports, selectedReportIds, question>>
    /\ Rerender(reports, selectedReportIds, Some(message))
    /\ UNCHANGED harnessVars

(***************************************************************************)
(* ReportsContainer and ReportPanel handlers                               *)
(***************************************************************************)

ShownReport == ActiveReport(VisibleReports(reports, selectedReportIds), activeReportId)

\* A report tab: setActiveReportId(report.id).  The panel stays mounted and
\* receives the other report.
setActiveReportId(reportId) ==
    /\ PanelMounted(reports, selectedReportIds)
    /\ reportId \in ReportIdsOf(VisibleReports(reports, selectedReportIds))
    /\ activeReportId # Some(reportId)
    /\ activeReportId' = Some(reportId)
    /\ sortedRows' \in
          ReportPanel_sortedRows(
              ActiveReport(VisibleReports(reports, selectedReportIds),
                           Some(reportId)).data, sortConfig)
    /\ UNCHANGED <<isFullscreen, sortConfig, sortClicks>>
    /\ UNCHANGED <<homeVars, rendererVars, answerTableVars, harnessVars>>

\* onExpand / onClose / Escape: the panel moves into or out of the overlay,
\* a different place of the tree, so a new ReportPanel instance is mounted.
toggleFullscreen ==
    /\ PanelMounted(reports, selectedReportIds)
    /\ isFullscreen' = ~isFullscreen
    /\ sortConfig' = None
    /\ sortClicks' = <<>>
    /\ sortedRows' = IdentityView(ShownReport.data)
    /\ UNCHANGED activeReportId
    /\ UNCHANGED <<homeVars, rendererVars, answerTableVars, harnessVars>>

\* A column header of the report table: handleSort(col).
clickReportHeader(column) ==
    /\ PanelMounted(reports, selectedReportIds)
    /\ Len(ShownReport.data) > 0
    /\ column \in DOMAIN ShownReport.data[1]
    /\ Len(sortClicks) < MaxClicks
    /\ sortConfig' = ReportPanel_handleSort(sortConfig, column)
    /\ sortClicks' = Append(sortClicks, column)
    /\ sortedRows' \in ReportPanel_sortedRows(ShownReport.data, sortConfig')
    /\ UNCHANGED <<activeReportId, isFullscreen>>
    /\ UNCHANGED <<homeVars, rendererVars, answerTableVars, harnessVars>>

(***************************************************************************)
(* AnswerTable handler                                                     *)
(***************************************************************************)

\* A column header of the answer table: handleSort(colIdx).
clickAnswerHeader(colIdx) ==
    /\ FirstTableIndex(blocks) # 0
    /\ colIdx \in 1..Len(AnswerTableHeaders(blocks))
    /\ Len(answerSortClicks) < MaxClicks
    /\ answerSortConfig' = AnswerTable_handleSort(answerSortConfig, colIdx)
    /\ answerSortClicks' = Append(answerSortClicks, colIdx)
    /\ answerSortedRows' \in
          AnswerTable_sortedRows(AnswerTableRows(blocks), answerSortConfig')
    /\ UNCHANGED <<homeVars, panelVars, rendererVars, harnessVars>>

(***************************************************************************)
(* AnswerRenderer: handleInsightFollowup                                   *)
(***************************************************************************)

\* Faulty buttons: they stay enabled while the id is loading.
handleInsightFollowup_WhileLoading(insightId, action) ==
    /\ insightId \in InsightIds(blocks)
    /\ Cardinality(followupReqs) < MaxInFlight
    /\ insightFollowups' = followupStart(insightFollowups, insightId, action)
    /\ followupReqs' = followupReqs \cup
          {[id |-> insightId, action |-> action, live |-> TRUE, superseded |-> FALSE]}
    /\ UNCHANGED blocks
    /\ UNCHANGED <<homeVars, panelVars, answerTableVars, harnessVars>>

\* A follow-up button of an insight (enabled while the id is not loading):
\* handleInsightFollowup up to its await.
handleInsightFollowup(insightId, action) ==
    /\ insightId \in InsightIds(blocks)
    /\ Entry(insightFollowups, insightId).loading = None
    /\ Cardinality(followupReqs) < MaxInFlight
    /\ insightFollowups' = followupStart(insightFollowups, insightId, action)
    /\ followupReqs' = followupReqs \cup
          {[id |-> insightId, action |-> action, live |-> TRUE, superseded |-> FALSE]}
    /\ UNCHANGED blocks
    /\ UNCHANGED <<homeVars, panelVars, answerTableVars, harnessVars>>

\* handleInsightFollowup after the await, runAnalysis fulfilled.
FollowupResolved(req, resultAnswer) ==
    /\ req \in followupReqs
    /\ followupReqs' = followupReqs \ {req}
    /\ insightFollowups' =
          DeliverFollowups(req.live, insightFollowups,
              followupSuccess(insightFollowups, req.id, req.action, resultAnswer))
    /\ UNCHANGED blocks
    /\ UNCHANGED <<homeVars, panelVars, answerTableVars, harnessVars>>

\* handleInsightFollowup after the await, runAnalysis rejected.
FollowupRejected(req, message) ==
    /\ req \in followupReqs
    /\ followupReqs' = followupReqs \ {req}
    /\ insightFollowups' =
          DeliverFollowups(req.live, insightFollowups,
              followupFailure(insightFollowups, req.id, message))
    /\ UNCHANGED blocks
    /\ UNCHANGED <<homeVars, panelVars, answerTableVars, harnessVars>>

(***************************************************************************)
(* The question and follow-up specification                                *)
(***************************************************************************)

Init == InitApp /\ HarnessIdle

Next ==
    \/ \E result \in AskLoadResults : handleLoadReports(result)
    \/ \E reportId \in {"r1"} : toggleReportSelection(reportId)
    \/ \E text \in TypedQuestions : setQuestion(text)
    \/ handleAsk
    \/ \E label \in PromptLabels : handleQuickPrompt(label)
    \/ \E text \in AskAnswers : AskResolved(text)
    \/ \E message \in ErrorMessages : AskRejected(message)
    \/ \E id \in InsightIds(blocks), action \in FollowupActions :
          handleInsightFollowup(id, action)
    \/ \E req \in followupReqs, text \in FollowupAnswers : FollowupResolved(req, text)
    \/ \E req \in followupReqs, message \in ErrorMessages : FollowupRejected(req, message)

Spec == Init /\ [][Next]_vars

(***************************************************************************)
(* The table specification: report table and answer table sorting          *)
(***************************************************************************)

NextSort ==
    \/ \E result \in TableLoadResults : handleLoadReports(result)
    \/ \E reportId \in {"r1", "r2"} : setActiveReportId(reportId)
    \/ toggleFullscreen
    \/ \E column \in {"page", "k"} : clickReportHeader(column)
    \/ handleQuickPrompt("Landing page optimization")
    \/ \E text \in TableAnswers : AskResolved(text)
    \/ \E colIdx \in 1..2 : clickAnswerHeader(colIdx)

SpecSort == Init /\ [][NextSort]_vars

(***************************************************************************)
(* The comparator specification: compareValues on two raw cell values      *)
(***************************************************************************)

InitCmp ==
    /\ InitApp
    /\ cmpLeft \in CmpValues
    /\ cmpRight \in CmpValues
    /\ cmpOrder = None
    /\ cmpThird = Null
    /\ cmpOrders = None
    /\ CellIdle
    /\ ScanIdle
    /\ RankIdle

\* One call compareValues(cmpLeft, cmpRight), as the sort callbacks make it.
Compare ==
    /\ cmpOrder = None
    /\ cmpOrder' = Some(compareValues(cmpLeft, cmpRight))
    /\ UNCHANGED <<cmpLeft, cmpRight, cmpThird, cmpOrders>>
    /\ UNCHANGED <<homeVars, panelVars, rendererVars, answerTableVars, cellVars, scanVars, rankVars>>

NextCmp == Compare

SpecCmp == InitCmp /\ [][NextCmp]_vars

(***************************************************************************)
(* The ordering specification: compareValues on the pairs of three raw     *)
(* cell values, as a sort of a column holding them calls it                *)
(***************************************************************************)

InitOrder ==
    /\ InitApp
    /\ cmpLeft \in CmpValues
    /\ cmpRight \in CmpValues
    /\ cmpThird \in CmpValues
    /\ cmpOrder = None
    /\ cmpOrders = None
    /\ CellIdle
    /\ ScanIdle
    /\ RankIdle

\* The calls compareValues(x, y), (y, x), (y, z) and (x, z) for
\* x = cmpLeft, y = cmpRight, z = cmpThird.
CompareAll ==
    /\ cmpOrders = None
    /\ cmpOrders' = Some([xy |-> compareValues(cmpLeft, cmpRight),
                          yx |-> compareValues(cmpRight, cmpLeft),
                          yz |-> compareValues(cmpRight, cmpThird),
                          xz |-> compareValues(cmpLeft, cmpThird)])
    /\ UNCHANGED <<cmpLeft, cmpRight, cmpThird, cmpOrder>>
    /\ UNCHANGED <<homeVars, panelVars, rendererVars, answerTableVars, cellVars, scanVars, rankVars>>

NextOrder == CompareAll

SpecOrder == InitOrder /\ [][NextOrder]_vars

(***************************************************************************)
(* The classification specification: parseAnswerNumber on the text of an   *)
(* answer cell, as AnswerTable and AnswerCell call it                      *)
(***************************************************************************)

CellPrefixes == {"", "$", " "}

CellCores ==
    { "", "12", "37", "0", "0.00", "1,234.50", ",", "abc", "N/A",
      "05:00", "1:02:03", "1:30", "1:2", "123:45" }

CellSuffixes == {"", "%", " "}

\* Cell texts: a core with an optional "$" or blank before it and an
\* optional "%" or blank after it.
CellTexts ==
    { p \o c \o x : p \in CellPrefixes, c \in CellCores, x \in CellSuffixes }

InitCell ==
    /\ InitApp
    /\ CmpIdle
    /\ cellText \in CellTexts
    /\ cellNumber = None
    /\ ScanIdle
    /\ RankIdle

\* One call parseAnswerNumber(cellText).
ClassifyCell ==
    /\ cellNumber = None
    /\ cellNumber' = Some(parseAnswerNumber(cellText))
    /\ UNCHANGED cellText
    /\ UNCHANGED <<homeVars, panelVars, rendererVars, answerTableVars, cmpVars, scanVars, rankVars>>

NextCell == ClassifyCell

SpecCell == InitCell /\ [][NextCell]_vars

(***************************************************************************)
(* The parser specification: the scan loop of parseAnswerBlocks, one       *)
(* iteration of the outer while loop per step                              *)
(***************************************************************************)

MaxLines == 3

\* The lines the answers are made of: blank, heading, table header,
\* separator, short table row, list lines, text, text with inline bullets,
\* list lines that hold a pipe, and a line that is the bullet glyph alone.
ScanLineSet ==
    { "", "## H", "| a | b |", "|---|---|", "| 1 |", "- x",
      "text", "p " \o Bullet \o " q", Bullet \o " y - z",
      "- a | b", Bullet \o " c | d", Bullet }

\* The answers of n lines, the first from `first`, the others from `rest`.
RECURSIVE AnswersOfLines(_, _, _)
AnswersOfLines(first, rest, n) ==
    IF n <= 1 THEN first
    ELSE {t \o "\n" \o l : t \in AnswersOfLines(first, rest, n - 1), l \in rest}

ScanAnswers == UNION {AnswersOfLines(ScanLineSet, ScanLineSet, n) : n \in 1..MaxLines}

\* The call parseAnswerBlocks(answer) up to its while loop.
InitScan ==
    /\ InitApp
    /\ CmpIdle
    /\ CellIdle
    /\ scanAnswer \in ScanAnswers
    /\ scanLines = SplitLines(scanAnswer)
    /\ scanIndex = 1
    /\ scanBlocks = <<>>
    /\ scanReturned = None
    /\ RankIdle

\* One iteration of while (i < lines.length).
ScanIteration ==
    /\ scanReturned = None
    /\ scanIndex <= Len(scanLines)
    /\ scanIndex' = ScanNext(scanLines, scanIndex)
    /\ scanBlocks' = scanBlocks \o ScanPush(scanLines, scanIndex)
    /\ UNCHANGED <<scanAnswer, scanLines, scanReturned>>
    /\ UNCHANGED <<homeVars, panelVars, rendererVars, answerTableVars, cmpVars, cellVars, rankVars>>

\* return blocks
ScanReturn ==
    /\ scanReturned = None
    /\ scanIndex > Len(scanLines)
    /\ scanReturned' = Some(scanBlocks)
    /\ UNCHANGED <<scanAnswer, scanLines, scanIndex, scanBlocks>>
    /\ UNCHANGED <<homeVars, panelVars, rendererVars, answerTableVars, cmpVars, cellVars, rankVars>>

NextScan == ScanIteration \/ ScanReturn

SpecScan == InitScan /\ [][NextScan]_vars

\* The same lines written as short as they can be.
ShortLineSet ==
    { "", "##H", "a|b", "|-|", "1", "- x", "t", "p" \o Bullet \o "q", Bullet \o "y" }

\* Answers of one and two short lines, and those of three short lines that
\* start with a text line or a table header.
ShortAnswers ==
    AnswersOfLines(ShortLineSet, ShortLineSet, 1)
        \cup AnswersOfLines(ShortLineSet, ShortLineSet, 2)
        \cup AnswersOfLines({"t", "a|b"}, ShortLineSet, 3)

InitScanShort ==
    /\ InitApp
    /\ CmpIdle
    /\ CellIdle
    /\ scanAnswer \in ShortAnswers
    /\ scanLines = SplitLines(scanAnswer)
    /\ scanIndex = 1
    /\ scanBlocks = <<>>
    /\ scanReturned = None
    /\ RankIdle

\* The call runs to completion: parseAnswerBlocks is synchronous code
\* without suspension points, so a step that can be taken is taken.
SpecScanFair == InitScanShort /\ [][NextScan]_vars /\ WF_vars(NextScan)

(***************************************************************************)
(* Properties of the follow-up engine (specification Spec)                 *)
(***************************************************************************)

\* C1: a follow-up request started under an answer that has since been
\* replaced is never applied: when it completes, with a result or with an
\* error, the follow-up state of the answer on screen is left as it was.
C1_StaleFollowupNeverApplied ==
    [][\A r \in followupReqs :
          (r.superseded /\ r \notin followupReqs')
              => insightFollowups' = insightFollowups]_vars

\* A follow-up of the replaced answer is still in flight while the new
\* answer shows state of its own under the same insight id.
C1_Witness ==
    \E r \in followupReqs :
        /\ r.superseded
        /\ RendererMounted(reports, selectedReportIds, answer)
        /\ r.id \in DOMAIN insightFollowups

OtherIdsUnchanged(X) ==
    /\ DOMAIN insightFollowups' \ {X} = DOMAIN insightFollowups \ {X}
    /\ \A Y \in DOMAIN insightFollowups \ {X} :
          insightFollowups'[Y] = insightFollowups[Y]

\* C2: the start, the success and the failure of a follow-up for insight
\* id X leave the stored state of every other insight id unchanged.  A
\* request enters followupReqs live in the start step of its id, and leaves
\* it with the HomePage state unchanged in its success or failure step.
C2_OtherIdsUntouched ==
    [][/\ \A r \in followupReqs' \ followupReqs :
             (r.live /\ ~r.superseded) => OtherIdsUnchanged(r.id)
       /\ \A r \in followupReqs \ followupReqs' :
             UNCHANGED homeVars => OtherIdsUnchanged(r.id)]_vars

\* Two insight ids hold state at once: one is loading, the other keeps a
\* result.
C2_Witness ==
    \E X, Y \in DOMAIN insightFollowups :
        /\ X # Y
        /\ insightFollowups[X].loading # None
        /\ insightFollowups[Y].basis # None

C5_AnswerChangeEmptiesFollowups ==
    [][answer' # answer => insightFollowups' = EmptyMap]_vars

\* The answer was replaced while a follow-up of it was in flight (its
\* loading entry was stored), and the map is empty.
C5_Witness ==
    /\ \E r \in followupReqs : r.superseded
    /\ insightFollowups = EmptyMap
    /\ answer # None

(***************************************************************************)
(* Properties of the table sort state (specification SpecSort)             *)
(***************************************************************************)

\* The sort state the toggle rule gives after the header clicks, starting
\* unsorted: None, or the column with its direction.
RECURSIVE ToggleRule(_)
ToggleRule(clicks) ==
    IF clicks = <<>> THEN None
    ELSE IF ToggleRule(SubSeq(clicks, 1, Len(clicks) - 1))
               = Some(<<clicks[Len(clicks)], "asc">>)
    THEN Some(<<clicks[Len(clicks)], "desc">>)
    ELSE Some(<<clicks[Len(clicks)], "asc">>)

\* C6: a click on header C gives (C, descending) if the state was
\* (C, ascending), and (C, ascending) in every other case, in the report
\* table and in the answer table: the sort state of each table is what this
\* rule gives for the clicks the table has received.
C6_ToggleRule ==
    /\ ToggleRule(sortClicks) =
          IF sortConfig = None THEN None
          ELSE Some(<<sortConfig[1].key, sortConfig[1].direction>>)
    /\ ToggleRule(answerSortClicks) =
          IF answerSortConfig = None THEN None
          ELSE Some(<<answerSortConfig[1].colIdx, answerSortConfig[1].direction>>)

\* Three clicks on one column of each table, ending ascending; and a click
\* on another column after a descending state is possible too.
C6_Witness ==
    /\ sortClicks = <<"k", "k", "k">>
    /\ sortConfig = Some([key |-> "k", direction |-> "asc"])
    /\ answerSortClicks = <<2, 2, 2>>
    /\ answerSortConfig = Some([colIdx |-> 2, direction |-> "asc"])

\* C7: in a sorted view, ascending or descending, two rows whose values in
\* the sort column compare equal are in their original relative order.
C7_TiesKeepRowOrder ==
    /\ (sortConfig # None /\ PanelMounted(reports, selectedReportIds)) =>
          \A i, j \in 1..Len(sortedRows) :
              (/\ i < j
               /\ compareValues(
                      Cell(ShownReport.data[sortedRows[i]], sortConfig[1].key),
                      Cell(ShownReport.data[sortedRows[j]], sortConfig[1].key)) = 0)
                  => sortedRows[i] < sortedRows[j]
    /\ answerSortConfig # None =>
          \A i, j \in 1..Len(answerSortedRows) :
              (/\ i < j
               /\ compareValues(
                      Str(AnswerCellText(AnswerTableRows(blocks)[answerSortedRows[i]],
                                         answerSortConfig[1].colIdx)),
                      Str(AnswerCellText(AnswerTableRows(blocks)[answerSortedRows[j]],
                                         answerSortConfig[1].colIdx))) = 0)
                  => answerSortedRows[i] < answerSortedRows[j]

\* C8: when the data a table shows changes (the report table gets another
\* report or reloaded reports, the answer table another text), the sort
\* state of the table is unsorted afterwards.
C8_DataChangeResetsSort ==
    [][/\ (/\ PanelMounted(reports, selectedReportIds)
           /\ PanelMounted(reports', selectedReportIds')
           /\ ShownReport' # ShownReport) => sortConfig' = None
       /\ AnswerTableRows(blocks') # AnswerTableRows(blocks)
             => answerSortConfig' = None]_vars

(***************************************************************************)
(* Properties of the comparator (specification SpecCmp)                    *)
(***************************************************************************)

\* C9: for two cell texts that both classify to numbers (durations, and
\* numbers written with %, $ or thousands commas), the sign of
\* compareValues is the sign of the difference of their classifications.
C9_ComparatorAppliesClassification ==
    (/\ cmpOrder # None
     /\ cmpLeft.t = "str"
     /\ cmpRight.t = "str"
     /\ ~parseAnswerNumber(cmpLeft.s).nan
     /\ ~parseAnswerNumber(cmpRight.s).nan)
        => cmpOrder[1] = NumCompare(parseAnswerNumber(cmpLeft.s),
                                    parseAnswerNumber(cmpRight.s))

\* C10: a null, missing or empty cell value is ordered after every other
\* value, and two such values compare equal.
C10_EmptyValuesSortLast ==
    cmpOrder # None =>
        LET leftEmpty  == cmpLeft.t = "null" \/ cmpLeft = Str("")
            rightEmpty == cmpRight.t = "null" \/ cmpRight = Str("")
        IN  /\ (leftEmpty /\ rightEmpty) => cmpOrder[1] = 0
            /\ (leftEmpty /\ ~rightEmpty) => cmpOrder[1] = 1
            /\ (~leftEmpty /\ rightEmpty) => cmpOrder[1] = -1

(***************************************************************************)
(* The ranking specification: LandingPageHighlights on a report, and       *)
(* buildRankedRows on the data of a report whose fields resolve            *)
(***************************************************************************)

MaxRankRows == 3

\* The row with the keys ks and the values vs.
Fields(ks, vs) ==
    [k \in {ks[i] : i \in 1..Len(ks)} |-> vs[CHOOSE i \in 1..Len(ks) : ks[i] = k]]

LandingKeys == <<"Landing Page", "Purchase Revenue", "Revenue per Session">>

\* Rows of a landing pages report: zero written four ways, text, a missing
\* value, a blank label, a row with two spellings of the page key, and a
\* row without a revenue per session field.
RankRowSet ==
    { Fields(LandingKeys, <<Str("/a"), Num(5), Str("1.5")>>),
      Fields(LandingKeys, <<Str("/b"), Num(0), Str("0")>>),
      Fields(LandingKeys, <<Str("/c"), Str("0%"), Str("$0.00")>>),
      Fields(LandingKeys, <<Str("/d"), Str("N/A"), Null>>),
      Fields(LandingKeys, <<Str("  "), Num(7), Num(7)>>),
      Fields(<<"page", "Page", "revenue", "revenue_per_session">>,
             <<Str("/q"), Str("/p"), Str("1,000"), Str("2a")>>),
      Fields(<<"Page", "Revenue">>, <<Str("/x"), Num(9)>>) }

RankDatasets == UNION {[1..n -> RankRowSet] : n \in 0..MaxRankRows}

RankLimits == {1, 2, 5}

InitRank ==
    /\ InitApp
    /\ CmpIdle
    /\ CellIdle
    /\ ScanIdle
    /\ rankReport \in {None} \cup {Some(data) : data \in RankDatasets}
    /\ rankOutcome = None
    /\ rankCall = None

\* A render of LandingPageHighlights.
RenderHighlights ==
    /\ rankOutcome = None
    /\ rankCall = None
    /\ \E out \in LandingPageHighlights(rankReport) : rankOutcome' = Some(out)
    /\ UNCHANGED <<rankReport, rankCall>>
    /\ UNCHANGED <<homeVars, panelVars, rendererVars, answerTableVars, cmpVars, cellVars, scanVars>>

\* One call of buildRankedRows, which exists once the three fields are
\* resolved.
buildRankedRowsCall ==
    /\ rankOutcome = None
    /\ rankCall = None
    /\ rankReport # None
    /\ \E pageKey \in {pickFirstKey(rankReport[1], PageCandidates)},
          revenueKey \in {pickFirstKey(rankReport[1], RevenueCandidates)},
          revenuePerSessionKey \in {pickFirstKey(rankReport[1], RevenuePerSessionCandidates)} :
          /\ pageKey # None /\ revenueKey # None /\ revenuePerSessionKey # None
          /\ \E valueKey \in {revenueKey[1], revenuePerSessionKey[1]},
                direction \in {"asc", "desc"},
                limit \in RankLimits,
                excludeZero \in BOOLEAN :
                \E order \in RankOrders(rankReport[1], pageKey[1], valueKey,
                                         direction, excludeZero) :
                    /\ rankCall' = Some([pageKey     |-> pageKey[1],
                                         valueKey    |-> valueKey,
                                         direction   |-> direction,
                                         limit       |-> limit,
                                         excludeZero |-> excludeZero,
                                         rows        |-> RankProject(rankReport[1], order,
                                                                     pageKey[1], valueKey,
                                                                     limit)])
                    /\ rankReport' = Some(RankDataAfter(rankReport[1], order))
    /\ UNCHANGED rankOutcome
    /\ UNCHANGED <<homeVars, panelVars, rendererVars, answerTableVars, cmpVars, cellVars, scanVars>>

NextRank == RenderHighlights \/ buildRankedRowsCall

SpecRank == InitRank /\ [][NextRank]_vars

(***************************************************************************)
(* The view specification: the sorts of the two tables and the ranked      *)
(* views of LandingPageHighlights next to the rows they are computed from  *)
(***************************************************************************)

\* The data of a landing pages report, not in the order of any ranking.
FrameData ==
    << Fields(LandingKeys, <<Str("/a"), Num(5), Str("1.5")>>),
       Fields(LandingKeys, <<Str("/d"), Str("N/A"), Null>>),
       Fields(LandingKeys, <<Str("/b"), Num(0), Str("0")>>) >>

InitFrame ==
    /\ InitApp
    /\ CmpIdle
    /\ CellIdle
    /\ ScanIdle
    /\ rankReport = Some(FrameData)
    /\ rankOutcome = None
    /\ rankCall = None

\* The report table and the answer table are sorted, and
\* LandingPageHighlights makes its four calls of buildRankedRows.
NextFrame ==
    \/ \E result \in TableLoadResults : handleLoadReports(result)
    \/ \E column \in {"page", "k"} : clickReportHeader(column)
    \/ handleQuickPrompt("Landing page optimization")
    \/ \E text \in TableAnswers : AskResolved(text)
    \/ \E colIdx \in 1..2 : clickAnswerHeader(colIdx)
    \/ /\ buildRankedRowsCall
       /\ rankCall'[1].limit = 5
       /\ rankCall'[1].excludeZero = (rankCall'[1].direction = "asc")

SpecFrame == InitFrame /\ [][NextFrame]_vars

(***************************************************************************)
(* Properties of the ordering (specification SpecOrder)                    *)
(***************************************************************************)

\* The classification of a raw cell value by the value model: a number is
\* itself, a text is classified by parseAnswerNumber, null is no number.
Classify(v) ==
    IF v.t = "num" THEN Number(v.n, 0)
    ELSE IF v.t = "str" THEN parseAnswerNumber(v.s)
    ELSE NaN

\* C11 (first half): compare(x, y) and compare(y, x) have opposite signs and
\* are zero together, for all raw values x and y.
C11_Antisymmetric ==
    cmpOrders # None => cmpOrders[1].xy = 0 - cmpOrders[1].yx

\* C11 (second half, with parseMaybeNumber, the classification that
\* compareValues itself applies): compare is transitive on values that
\* parseMaybeNumber turns into numbers.
C11_TransitiveOnParsedNumbers ==
    (/\ cmpOrders # None
     /\ ~parseMaybeNumber(cmpLeft).nan
     /\ ~parseMaybeNumber(cmpRight).nan
     /\ ~parseMaybeNumber(cmpThird).nan
     /\ cmpOrders[1].xy <= 0
     /\ cmpOrders[1].yz <= 0) => cmpOrders[1].xz <= 0

\* C11: for all raw values x and y, compare(x, y) and compare(y, x) have
\* opposite signs (and are zero together); and compare is transitive on
\* values that classify as numeric: for x, y, z that the value model
\* classifies to numbers, compare(x, y) <= 0 and compare(y, z) <= 0 imply
\* compare(x, z) <= 0.
C11_AntisymmetricAndTransitiveOnNumeric ==
    cmpOrders # None =>
        /\ cmpOrders[1].xy = 0 - cmpOrders[1].yx
        /\ (/\ ~Classify(cmpLeft).nan
            /\ ~Classify(cmpRight).nan
            /\ ~Classify(cmpThird).nan
            /\ cmpOrders[1].xy <= 0
            /\ cmpOrders[1].yz <= 0) => cmpOrders[1].xz <= 0

\* C12: compare is a total order over all raw cell values, columns that mix
\* numbers ("999", "1,000") with text ("2a") included: for all x, y, z,
\* compare(x, y) <= 0 and compare(y, z) <= 0 imply compare(x, z) <= 0.
C12_TotalOrder ==
    (/\ cmpOrders # None
     /\ cmpOrders[1].xy <= 0
     /\ cmpOrders[1].yz <= 0) => cmpOrders[1].xz <= 0

(***************************************************************************)
(* Properties of the classification (specification SpecCell)               *)
(***************************************************************************)

\* C13: duration texts classify to their total seconds: "1:02:03" to 3723
\* and "05:00" to 300; "12", which has no colon, classifies to 12.
C13_DurationSeconds ==
    cellNumber # None =>
        /\ cellText = "1:02:03" => cellNumber[1] = Number(3723, 0)
        /\ cellText = "05:00" => cellNumber[1] = Number(300, 0)
        /\ cellText = "12" => cellNumber[1] = Number(12, 0)

\* What is left of a cell text once %, $, commas and white space are
\* stripped.
Stripped(s) == RemoveChars(s, {"%", "$", ",", " ", "\t", "\r", "\n"})

\* C14: for a text that is no duration, the classification is the decimal
\* number left after %, $, commas and white space are stripped
\* ("$1,234.50" gives 1234.5, "37%" gives 37); when what is left is not a
\* decimal number, nothing being left included ("%", "$", ","), the
\* classification is null.
C14_StripAndParse ==
    (cellNumber # None /\ parseDurationToSeconds(cellText).nan) =>
        /\ cellNumber[1] = UnsignedDecimal(Stripped(cellText))
        /\ cellText = "$1,234.50" => cellNumber[1] = Number(123450, 2)
        /\ cellText = "37%" => cellNumber[1] = Number(37, 0)
        /\ cellText \in {"%", "$", ","} => cellNumber[1] = NaN

(***************************************************************************)
(* Properties of the parser (specification SpecScan)                       *)
(***************************************************************************)

\* The loop and the recursive definition of the parser return the same.
ScanAgreesWithParseFrom ==
    scanReturned # None => scanReturned[1] = parseAnswerBlocks(scanAnswer)

\* C15: every row of every Table block has exactly as many cells as the
\* block has headers (short rows being padded with empty strings).
C15_RowsMatchHeaders ==
    \A b \in 1..Len(scanBlocks) :
        scanBlocks[b].type = "table" =>
            \A r \in 1..Len(scanBlocks[b].rows) :
                Len(scanBlocks[b].rows[r]) = Len(scanBlocks[b].headers)

\* C16: parse is total: every iteration of the scan loop advances the line
\* index by at least one, and the call returns its blocks.
C16_ParseTotal ==
    /\ [][scanReturned' = None => scanIndex' >= scanIndex + 1]_scanVars
    /\ <>(scanReturned # None)

\* An answer whose malformed table (a header without separator line)
\* became a paragraph has been parsed to the end and returned.
C16_Witness ==
    /\ scanReturned # None
    /\ scanAnswer = "a|b\n1\nt"
    /\ scanReturned[1] = <<ParagraphBlock("a|b 1 t")>>

(***************************************************************************)
(* Properties of the ranking (specification SpecRank)                      *)
(***************************************************************************)

\* The value model classifies the raw value to the number zero.
ClassifiesToZero(v) == ~Classify(v).nan /\ Classify(v).m = 0

\* parseMaybeNumber turns the raw value into the number zero.
ParsesToZero(v) == ~parseMaybeNumber(v).nan /\ parseMaybeNumber(v).m = 0

\* The projection of row i of the data to its label and display value.
RankPair(data, i, pageKey, valueKey) ==
    [label |-> StringOrEmpty(Cell(data[i], pageKey)),
     value |-> StringOrEmpty(Cell(data[i], valueKey))]

\* The rows of the ranked view are, as a bag, the projections of the rows
\* of the data with the indices of `indices`.
SameRows(rows, data, indices, pageKey, valueKey) ==
    \A pair \in {rows[k] : k \in 1..Len(rows)}
                \cup {RankPair(data, i, pageKey, valueKey) : i \in indices} :
        Cardinality({k \in 1..Len(rows) : rows[k] = pair})
            = Cardinality({i \in indices : RankPair(data, i, pageKey, valueKey) = pair})

\* The indices of the rows with a label that is not blank.
Labelled(data, pageKey) ==
    {i \in 1..Len(data) : Trim(StringOrEmpty(Cell(data[i], pageKey))) # ""}

\* C17: with excludeZero set, rank drops exactly the rows whose value the
\* value model classifies to zero ("0", "0%", "$0.00") and keeps the rows
\* whose value is not numeric ("N/A"); with excludeZero unset no row is
\* dropped for its value.  (Calls whose limit does not cut the view.)
C17_ExcludeZeroDropsClassifiedZero ==
    (rankCall # None /\ rankCall[1].limit >= Len(rankReport[1])) =>
        LET call == rankCall[1]
            data == rankReport[1]
        IN  SameRows(call.rows, data,
                     {i \in Labelled(data, call.pageKey) :
                         call.excludeZero =>
                             ~ClassifiesToZero(Cell(data[i], call.valueKey))},
                     call.pageKey, call.valueKey)

\* The exclusion as buildRankedRows applies it: with excludeZero set the
\* rows dropped are exactly those whose value parseMaybeNumber turns into
\* zero.
RankDropsParsedZero ==
    (rankCall # None /\ rankCall[1].limit >= Len(rankReport[1])) =>
        LET call == rankCall[1]
            data == rankReport[1]
        IN  SameRows(call.rows, data,
                     {i \in Labelled(data, call.pageKey) :
                         call.excludeZero =>
                             ~ParsesToZero(Cell(data[i], call.valueKey))},
                     call.pageKey, call.valueKey)

\* The candidate list resolves to `key` on the keys of the first row: key
\* is the first candidate, in the order of the list, that is one of them.
ResolvesTo(candidates, keys, key) ==
    \E c \in 1..Len(candidates) :
        /\ candidates[c] = key
        /\ key \in keys
        /\ \A d \in 1..(c - 1) : candidates[d] \notin keys

Resolvable(candidates, keys) == \E c \in 1..Len(candidates) : candidates[c] \in keys

\* C18: the label and value fields are the first candidate spelling, in the
\* fixed order, that is a key of the first row of the report; when a
\* required field has no candidate among these keys no ranking is computed
\* and the distinct outcome "fields unavailable" is returned.
C18_FieldsResolvedOrUnavailable ==
    /\ (rankOutcome # None /\ rankReport # None /\ Len(rankReport[1]) > 0) =>
           LET keys == DOMAIN rankReport[1][1]
               out  == rankOutcome[1]
           IN  IF /\ Resolvable(PageCandidates, keys)
                  /\ Resolvable(RevenueCandidates, keys)
                  /\ Resolvable(RevenuePerSessionCandidates, keys)
               THEN /\ out.kind = "blocks"
                    /\ ResolvesTo(PageCandidates, keys, out.keys[1])
                    /\ ResolvesTo(RevenueCandidates, keys, out.keys[2])
                    /\ ResolvesTo(RevenuePerSessionCandidates, keys, out.keys[3])
               ELSE out.kind = "fields_unavailable" /\ out.blocks = <<>>
    /\ rankCall # None =>
           LET keys == DOMAIN rankReport[1][1]
           IN  /\ ResolvesTo(PageCandidates, keys, rankCall[1].pageKey)
               /\ \/ ResolvesTo(RevenueCandidates, keys, rankCall[1].valueKey)
                  \/ ResolvesTo(RevenuePerSessionCandidates, keys, rankCall[1].valueKey)

\* The first row lacks the revenue per session field, which the second row
\* has: LandingPageHighlights rendered "fields unavailable".
C18_Witness ==
    /\ rankOutcome # None
    /\ rankOutcome[1].kind = "fields_unavailable"
    /\ Len(rankReport[1]) = 2
    /\ DOMAIN rankReport[1][1] = {"Page", "Revenue"}
    /\ "Revenue per Session" \in DOMAIN rankReport[1][2]

\* The view `rows` is the first min(limit, n) of the n rows `eligible`,
\* ordered by compareValues on the raw value in the direction: it projects
\* a sequence of distinct eligible rows, each not after its successor, and
\* no eligible row left out is before the last row taken.
FirstInOrder(rows, data, eligible, call) ==
    LET order(i, j) ==
            IF call.direction = "asc"
            THEN compareValues(Cell(data[i], call.valueKey), Cell(data[j], call.valueKey))
            ELSE 0 - compareValues(Cell(data[i], call.valueKey), Cell(data[j], call.valueKey))
        n == Cardinality(eligible)
    IN  /\ Len(rows) = IF call.limit < n THEN call.limit ELSE n
        /\ \E taken \in [1..Len(rows) -> eligible] :
               /\ \A k, l \in 1..Len(rows) : k # l => taken[k] # taken[l]
               /\ \A k \in 1..Len(rows) :
                      rows[k] = RankPair(data, taken[k], call.pageKey, call.valueKey)
               /\ \A k \in 1..(Len(rows) - 1) : order(taken[k], taken[k + 1]) <= 0
               /\ Len(rows) > 0 =>
                      \A j \in eligible \ {taken[k] : k \in 1..Len(rows)} :
                          order(taken[Len(rows)], j) <= 0

\* C19: rank returns exactly the first min(limit, n) of the n eligible rows
\* (label not blank, not excluded by excludeZero, that is, with excludeZero
\* set, value not classified to zero), ordered by the comparator on the raw
\* value in the requested direction and projected to the label and the
\* untransformed value; rows with a blank label never appear.
C19_FirstEligibleInOrder ==
    rankCall # None =>
        LET call == rankCall[1]
            data == rankReport[1]
        IN  /\ \A k \in 1..Len(call.rows) : Trim(call.rows[k].label) # ""
            /\ FirstInOrder(call.rows, data,
                            {i \in Labelled(data, call.pageKey) :
                                call.excludeZero =>
                                    ~ClassifiesToZero(Cell(data[i], call.valueKey))},
                            call)

\* The same with the exclusion as buildRankedRows applies it.
RankFirstKeptInOrder ==
    rankCall # None =>
        LET call == rankCall[1]
            data == rankReport[1]
        IN  /\ \A k \in 1..Len(call.rows) : Trim(call.rows[k].label) # ""
            /\ FirstInOrder(call.rows, data,
                            {i \in Labelled(data, call.pageKey) :
                                call.excludeZero =>
                                    ~ParsesToZero(Cell(data[i], call.valueKey))},
                            call)

(***************************************************************************)
(* Properties of the views (specification SpecFrame)                       *)
(***************************************************************************)

MaxInsightLines == 3

\* A heading that opens an insights section and one that does not, list
\* lines of both prefixes, and a text line.
InsightLineSet == { "## INSIGHTS", "## Next", "- a", Bullet \o " b - c", "text" }

InsightAnswers ==
    UNION {AnswersOfLines(InsightLineSet, InsightLineSet, n) : n \in 1..MaxInsightLines}

\* scanAnswer holds result.answer of the analysis call to come.
InitInsights ==
    /\ InitApp
    /\ CmpIdle
    /\ CellIdle
    /\ scanAnswer \in InsightAnswers
    /\ scanLines = <<>>
    /\ scanIndex = 1
    /\ scanBlocks = <<>>
    /\ scanReturned = None
    /\ RankIdle

NextInsights ==
    \/ \E result \in AskLoadResults : handleLoadReports(result)
    \/ handleQuickPrompt("Traffic quality assessment")
    \/ AskResolved(scanAnswer)
    \/ \E id \in InsightIds(blocks) : handleInsightFollowup(id, "basis")

SpecInsights == InitInsights /\ [][NextInsights]_vars

(***************************************************************************)
(* Properties of the insights of an answer (specification SpecInsights)    *)
(***************************************************************************)

\* The position of the last heading block before position index, 0 when
\* there is none.
LastHeadingBefore(bs, index) ==
    LET headings == {h \in 1..(index - 1) : bs[h].type = "heading"}
    IN  IF headings = {} THEN 0
        ELSE CHOOSE h \in headings : \A g \in headings : g <= h

\* The list block at position index follows a heading, and the nearest
\* one reads "insights" once trimmed and lower-cased.
InInsightsSection(bs, index) ==
    /\ bs[index].type = "list"
    /\ LastHeadingBefore(bs, index) # 0
    /\ ToLowerCase(Trim(bs[LastHeadingBefore(bs, index)].text)) = "insights"

\* The ids of the items of the lists of the insights sections.
EligibleIds(bs) ==
    UNION {{InsightId(index, itemIdx) : itemIdx \in 1..Len(bs[index].items)} :
              index \in {i \in 1..Len(bs) : InInsightsSection(bs, i)}}

\* C24: a list item has the follow-up buttons if and only if the nearest
\* heading block before its list reads "insights" once trimmed and
\* lower-cased; the items of a list before any heading, or after a later
\* heading that reads otherwise, have none, and no follow-up is ever
\* started or recorded for them.
C24_ButtonsOnlyInInsightsSection ==
    /\ \A index \in 1..Len(blocks) :
          blocks[index].type = "list" =>
              \A itemIdx \in 1..Len(blocks[index].items) :
                  InsightId(index, itemIdx) \in InsightIds(blocks)
                      <=> InInsightsSection(blocks, index)
    /\ \A req \in followupReqs :
          (req.live /\ ~req.superseded) => req.id \in EligibleIds(blocks)
    /\ DOMAIN insightFollowups \subseteq EligibleIds(blocks)

\* An answer with a list before any heading and a list in an insights
\* section is shown, and a follow-up of an insight has been started.
C24_Witness ==
    /\ \E i, j \in 1..Len(blocks) :
          /\ blocks[i].type = "list"
          /\ LastHeadingBefore(blocks, i) = 0
          /\ InInsightsSection(blocks, j)
    /\ \E req \in followupReqs : req.live /\ ~req.superseded

(***************************************************************************)
(* Properties of the scan loop, block by block (specification SpecScan)    *)
(***************************************************************************)

\* The rule the current non-blank line falls under: the first that matches
\* of heading, table look-ahead, bullet prefix, inline bullets, paragraph.
FirstMatchingRule(lines, i) ==
    LET line == Trim(lines[i])
        next == IF i + 1 <= Len(lines) THEN Trim(lines[i + 1]) ELSE ""
    IN  IF StartsWith(line, "##") THEN "heading"
        ELSE IF Occurs(line, "|") /\ isTableSeparator(next) THEN "table"
        ELSE IF StartsWith(line, "- ") \/ StartsWith(line, Bullet) THEN "list"
        ELSE IF Occurs(line, Bullet) /\ Len(ItemsOf(line, FALSE)) > 1 THEN "list"
        ELSE "paragraph"

\* C21: an iteration of the scan loop on a non-blank line pushes exactly
\* one block, of the type of the first matching rule in the order heading,
\* table look-ahead, bullet prefix, inline bullets, paragraph; so a line
\* that starts with "- " or the bullet glyph, holds a pipe and is followed
\* by a separator line gives a table block, not a list block.
C21_FirstMatchingRuleDecides ==
    [][(scanIndex' # scanIndex /\ Trim(scanLines[scanIndex]) # "")
          => /\ Len(scanBlocks') = Len(scanBlocks) + 1
             /\ SubSeq(scanBlocks', 1, Len(scanBlocks)) = scanBlocks
             /\ scanBlocks'[Len(scanBlocks')].type
                    = FirstMatchingRule(scanLines, scanIndex)]_vars

\* A list line with a pipe, followed by a separator line, has been scanned
\* into a table block.
C21_Witness ==
    /\ Len(scanLines) >= 2
    /\ IsListLine(Trim(scanLines[1]))
    /\ Occurs(scanLines[1], "|")
    /\ isTableSeparator(Trim(scanLines[2]))
    /\ scanIndex > 2
    /\ Len(scanBlocks) >= 1
    /\ scanBlocks[1].type = "table"

\* C22: a paragraph run ends before any line that starts a list: no line
\* joined into a paragraph block starts with "- " or with the bullet glyph.
C22_ParagraphStopsBeforeListLine ==
    [][(/\ scanIndex' # scanIndex
        /\ Len(scanBlocks') = Len(scanBlocks) + 1
        /\ scanBlocks'[Len(scanBlocks')].type = "paragraph")
          => \A j \in scanIndex..(scanIndex' - 1) :
                 /\ ~StartsWith(Trim(scanLines[j]), "- ")
                 /\ ~StartsWith(Trim(scanLines[j]), Bullet)]_vars

\* What the paragraph loop does keep out of a paragraph: the lines that
\* start with "- ".
ParagraphStopsBeforeDashLine ==
    [][(/\ scanIndex' # scanIndex
        /\ Len(scanBlocks') = Len(scanBlocks) + 1
        /\ scanBlocks'[Len(scanBlocks')].type = "paragraph")
          => \A j \in scanIndex..(scanIndex' - 1) :
                 ~StartsWith(Trim(scanLines[j]), "- ")]_vars

\* The text of a list line after its prefix.
AfterPrefix(line) ==
    IF StartsWith(line, "- ") THEN SubSeq(line, 3, Len(line)) ELSE Tail(line)

\* The line holds an item separator after its prefix.
HasInnerSeparator(line) == Len(SplitItems(AfterPrefix(line), TRUE, 1)) > 1

\* The first index at or after i whose line does not start with "- " or
\* with the bullet glyph.
RECURSIVE RunEnd(_, _)
RunEnd(lines, i) ==
    IF i <= Len(lines)
       /\ (StartsWith(Trim(lines[i]), "- ") \/ StartsWith(Trim(lines[i]), Bullet))
    THEN RunEnd(lines, i + 1)
    ELSE i

\* items is the concatenation, in line order, of item sequences drawn from
\* the lines from..to-1, each a subsequence of the line's parts.
RECURSIVE InLineOrder(_, _, _, _)
InLineOrder(items, lines, from, to) ==
    IF from >= to THEN items = <<>>
    ELSE \E k \in 0..Len(items) :
            /\ SubSeq(items, 1, k) = ItemsOf(Trim(lines[from]), TRUE)
            /\ InLineOrder(SubSeq(items, k + 1, Len(items)), lines, from + 1, to)

\* C23: a run of consecutive lines that each start with "- " or with the
\* bullet glyph gives exactly one list block that covers the whole run;
\* its items are those of the lines, in line order; every item is trimmed
\* and non-empty; and when no line of the run holds an inner separator the
\* list has as many items as the run has lines.
C23_RunGivesOneListInOrder ==
    [][(/\ scanIndex' # scanIndex
        /\ FirstMatchingRule(scanLines, scanIndex) = "list"
        /\ IsListLine(Trim(scanLines[scanIndex])))
          => LET stop  == RunEnd(scanLines, scanIndex)
                 block == scanBlocks'[Len(scanBlocks')]
             IN  /\ Len(scanBlocks') = Len(scanBlocks) + 1
                 /\ block.type = "list"
                 /\ scanIndex' = stop
                 /\ InLineOrder(block.items, scanLines, scanIndex, stop)
                 /\ \A k \in 1..Len(block.items) :
                        block.items[k] # "" /\ Trim(block.items[k]) = block.items[k]
                 /\ (\A j \in scanIndex..(stop - 1) :
                         ~HasInnerSeparator(Trim(scanLines[j])))
                        => Len(block.items) = stop - scanIndex]_vars

\* What does hold of a run: one list block over the whole run, its items
\* in line order, trimmed and non-empty, and one item per line when every
\* line has text after its prefix and no inner separator.
RunGivesOneListOfNonEmptyLines ==
    [][(/\ scanIndex' # scanIndex
        /\ FirstMatchingRule(scanLines, scanIndex) = "list"
        /\ IsListLine(Trim(scanLines[scanIndex])))
          => LET stop  == RunEnd(scanLines, scanIndex)
                 block == scanBlocks'[Len(scanBlocks')]
             IN  /\ Len(scanBlocks') = Len(scanBlocks) + 1
                 /\ block.type = "list"
                 /\ scanIndex' = stop
                 /\ InLineOrder(block.items, scanLines, scanIndex, stop)
                 /\ \A k \in 1..Len(block.items) :
                        block.items[k] # "" /\ Trim(block.items[k]) = block.items[k]
                 /\ (\A j \in scanIndex..(stop - 1) :
                         /\ ~HasInnerSeparator(Trim(scanLines[j]))
                         /\ Trim(AfterPrefix(Trim(scanLines[j]))) # "")
                        => Len(block.items) = stop - scanIndex]_vars

\* C30: every list block the parser emits holds at least one item.
C30_ListsAreNonEmpty ==
    \A k \in 1..Len(scanBlocks) :
        scanBlocks[k].type = "list" => Len(scanBlocks[k].items) >= 1

\* What does hold: a list block of the inline-bullet rule has two items or
\* more.
InlineListsHaveTwoItems ==
    [][(/\ scanIndex' # scanIndex
        /\ Len(scanBlocks') = Len(scanBlocks) + 1
        /\ scanBlocks'[Len(scanBlocks')].type = "list"
        /\ ~IsListLine(Trim(scanLines[scanIndex])))
          => Len(scanBlocks'[Len(scanBlocks')].items) >= 2]_vars

(***************************************************************************)
(* Properties of the follow-up requests of one insight id (specification   *)
(* Spec)                                                                   *)
(***************************************************************************)

\* The step is the completion of request r, with a result or an error.
Completes(r) ==
    \/ \E t \in FollowupAnswers : FollowupResolved(r, t)
    \/ \E m \in ErrorMessages : FollowupRejected(r, m)

\* C25: within one insight id, a completion that changes the follow-up
\* state is that of the action started last on the id: the loading flag it
\* clears is the one its own start set, no other request of the answer on
\* screen is in flight on the id, and the result of the other action is
\* left as it was.
C25_CompletionIsOfLatestStart ==
    [][\A r \in followupReqs :
          (insightFollowups' # insightFollowups /\ Completes(r)) =>
              /\ r.live /\ ~r.superseded
              /\ Entry(insightFollowups, r.id).loading = Some(r.action)
              /\ Entry(insightFollowups', r.id).loading = None
              /\ \A o \in followupReqs \ {r} : ~(o.live /\ o.id = r.id)
              /\ r.action = "basis" =>
                    Entry(insightFollowups', r.id).deepDive
                        = Entry(insightFollowups, r.id).deepDive
              /\ r.action = "deep_dive" =>
                    Entry(insightFollowups', r.id).basis
                        = Entry(insightFollowups, r.id).basis]_vars

\* An insight keeps the result of one action while the other action,
\* started later on the same id, is loading.
C25_Witness ==
    \E r \in followupReqs :
        /\ r.live /\ ~r.superseded
        /\ r.action = "deep_dive"
        /\ Entry(insightFollowups, r.id).loading = Some("deep_dive")
        /\ Entry(insightFollowups, r.id).basis # None

\* C27: at most one follow-up request is in flight per insight id of an
\* answer at any time.
C27_OneRequestInFlightPerId ==
    \A r, o \in followupReqs :
        (r.id = o.id /\ ~r.superseded /\ ~o.superseded) => r = o

\* What does hold: the AnswerRenderer on screen has at most one request in
\* flight per insight id, the id's loading flag names its action, and a
\* follow-up is started only on an id whose loading flag is none.
OneRequestPerIdOnScreen ==
    [][/\ \A r, o \in followupReqs :
             (r.id = o.id /\ r.live /\ o.live) => r = o
       /\ \A r \in followupReqs :
             r.live => Entry(insightFollowups, r.id).loading = Some(r.action)
       /\ \A r \in followupReqs' \ followupReqs :
             r.live => Entry(insightFollowups, r.id).loading = None]_vars

(***************************************************************************)
(* The question and follow-up specification with calls that end: every     *)
(* analysis call of a follow-up eventually returns or fails                *)
(***************************************************************************)

\* The insight ids of the answers of this specification.
FollowupIds == UNION {InsightIds(parseAnswerBlocks(text)) : text \in AskAnswers}

\* The follow-up calls that can be in flight.
FollowupCalls ==
    [id : FollowupIds, action : FollowupActions, live : BOOLEAN, superseded : BOOLEAN]

\* runAnalysis settles every promise it returns: a call in flight is
\* eventually fulfilled or rejected.
SpecFair ==
    Init /\ [][Next]_vars /\ \A r \in FollowupCalls : WF_vars(Completes(r))

\* C28: every started follow-up eventually leaves the loading state: when
\* the analysis calls end, an insight id whose loading flag is basis or
\* deep_dive eventually has the flag none, whether its call returned or
\* failed.
C28_LoadingEventuallyEnds ==
    \A id \in FollowupIds :
        (Entry(insightFollowups, id).loading # None)
            ~> (Entry(insightFollowups, id).loading = None)

\* One insight has left loading with an error, another with a result.
C28_Witness ==
    \E X, Y \in DOMAIN insightFollowups :
        /\ insightFollowups[X].loading = None
        /\ insightFollowups[X].error # None
        /\ insightFollowups[Y].loading = None
        /\ insightFollowups[Y].error = None
        /\ insightFollowups[Y].deepDive # None

(***************************************************************************)
(* Properties of null values in the views (specification SpecFrame)        *)
(***************************************************************************)

\* The value of the sort column in the row at position k of the view of
\* the report table.
SortedCell(k) == Cell(ShownReport.data[sortedRows[k]], sortConfig[1].key)

\* The row of a ranked view comes from a row of the report whose value
\* field is null or missing.
RankedFromNull(row) ==
    \E k \in 1..Len(rankReport[1]) :
        /\ StringOrEmpty(Cell(rankReport[1][k], rankCall[1].pageKey)) = row.label
        /\ Cell(rankReport[1][k], rankCall[1].valueKey) = Null

\* In the view of the report table the rows without a value in the sort
\* column come after the others.
TableNullsLast ==
    (sortConfig # None /\ Len(VisibleReports(reports, selectedReportIds)) > 0) =>
        \A i, j \in 1..Len(sortedRows) :
            (i < j /\ SortedCell(i) = Null) => SortedCell(j) = Null

\* In a ranked view the rows without a value come after the others.
RankedNullsLast ==
    (rankCall # None /\ rankReport # None) =>
        \A i, j \in 1..Len(rankCall[1].rows) :
            (i < j /\ RankedFromNull(rankCall[1].rows[i]))
                => RankedFromNull(rankCall[1].rows[j])

\* C26: in every sorted view of the report table and in every ranked view,
\* ascending and descending alike, the rows whose sort field is null or
\* missing come after all rows with a value.
C26_NullsLastInEveryView == TableNullsLast /\ RankedNullsLast

\* What does hold: the rows without a value come last in the ascending
\* views, and first in the descending ones.
NullsLastAscendingFirstDescending ==
    /\ (sortConfig # None /\ Len(VisibleReports(reports, selectedReportIds)) > 0) =>
          \A i, j \in 1..Len(sortedRows) :
              (i < j /\ SortedCell(IF sortConfig[1].direction = "asc" THEN i ELSE j) = Null)
                  => SortedCell(IF sortConfig[1].direction = "asc" THEN j ELSE i) = Null
    /\ (rankCall # None /\ rankReport # None) =>
          \A i, j \in 1..Len(rankCall[1].rows) :
              (/\ i < j
               /\ RankedFromNull(rankCall[1].rows[IF rankCall[1].direction = "asc"
                                                  THEN i ELSE j]))
                  => RankedFromNull(rankCall[1].rows[IF rankCall[1].direction = "asc"
                                                     THEN j ELSE i])

(***************************************************************************)
(* Properties of the top-level analysis request (specification Spec)       *)
(***************************************************************************)

\* C29: at most one top-level analysis request, free-form question or
\* quick prompt, is in flight at any time; while it is in flight the answer
\* is null and no AnswerRenderer is rendered; and when it completes
\* isAsking is false and the answer is the returned text or the error
\* message.
C29_OneAnalysisInFlight ==
    [][/\ askCalls' <= 1
       /\ isAsking' = (askCalls' = 1)
       /\ isAsking' =>
             /\ answer' = None
             /\ ~RendererMounted(reports', selectedReportIds', answer')
             /\ blocks' = <<>>
             /\ insightFollowups' = EmptyMap
       /\ askCalls' < askCalls =>
             /\ ~isAsking'
             /\ \/ \E text \in AskAnswers : answer' = Some(text)
                \/ \E message \in ErrorMessages : answer' = Some(message)]_vars

\* An answer was shown and a follow-up of it was started; the next
\* request, a quick prompt, is in flight.
C29_Witness ==
    /\ askCalls = 1
    /\ isAsking
    /\ answer = None
    /\ question \in PromptLabels
    /\ \E r \in followupReqs : r.superseded

=============================================================================
